---- MODULE Spec2Model ----
(***************************************************************************)
(* Model of the hazard dashboards of this repository:                      *)
(*   src/Xreport.py            (prefix X_)                                 *)
(*   src/MegaReport/Xreport.py (prefix M_)                                 *)
(*   src/quakes.py             (prefix Q_)                                 *)
(*                                                                         *)
(* Execution is single-threaded: at most one function invocation is active *)
(* at a time.  An invocation is modelled step by step: the call, every     *)
(* HTTP request it has in flight, and its return (or the exception that    *)
(* leaves it).  Numbers with decimals are kept as scaled integers:         *)
(* magnitudes in tenths, coordinates in 1e-4 degrees.                      *)
(***************************************************************************)
EXTENDS Integers, Sequences, FiniteSets, TLC

VARIABLES
    \* ---- classify_earthquake_risk (src/Xreport.py) ----
    magnitude,      \* argument, in tenths of a magnitude unit
    distance_km,    \* argument, in km
    tsunami,        \* argument
    risk,           \* the label returned, "unset" before the call
    \* ---- the active invocation of a fetch / geocode function ----
    fn,             \* name of the function being executed, "none" when idle
    arg,            \* its arguments
    pc,             \* "idle", "request" (HTTP in flight), "returned", "raised"
    reqlog,         \* the HTTP requests this invocation has issued, in order
    ret,            \* the value returned
    exc,            \* the exception that left the function, "none" otherwise
    caught,         \* the exception an except clause of the function handled
    ui,             \* the message the function showed (st.error / st.warning)
    resp,           \* the last response the invocation received
    \* ---- st.cache_data of src/MegaReport/Xreport.py ----
    cache,          \* the stored results: [fn, arg, val, at]
    now,            \* the clock, in seconds
    calls,          \* number of calls of decorated functions so far
    execs,          \* the executions of a decorated function's body: [fn, arg, at]
    hit,            \* the current call was answered from the cache
    \* ---- GeoWeatherIntelligence.get_city_coordinates (src/quakes.py) ----
    city_base,      \* the name the user means, in lower case and unpadded
    city_name,      \* the text typed, as a sequence of characters
    coords,         \* the pair returned, <<>> before the call
    \* ---- haversine (src/MegaReport/Xreport.py) ----
    lat1, lon1,     \* the reference point, in degrees
    lat2, lon2,     \* the epicenter, in degrees
    dist,           \* the distance returned: [nan, km], km = -1 before the call
    \* ---- calculate_aftershock_probability (specification, section 4) ----
    omori,          \* the hardcoded constants [K, c, p]; c in hundredths of a day
    days,           \* the elapsed days
    prob,           \* the probability returned, in units of 1e-4; -1 before the call
    \* ---- main of src/Xreport.py: one browser session, run after run ----
    x_widgets,      \* the sidebar widgets: [input_method, at, radius_km]
    x_session,      \* st.session_state: [location, params]
    x_pc,           \* where the running script is, "idle" between two runs
    x_run,          \* what the current (or last) run did
    \* ---- main of src/MegaReport/Xreport.py: one browser session ----
    m_widgets,      \* the sidebar widgets: [input_method, at, city, country]
    m_session,      \* st.session_state: [lat, lon, location_name]
    m_pc,           \* where the running script is, "idle" between two runs
    m_run,          \* what the current (or last) run did
    m_found,        \* the city the geocoder last found in this session
    \* ---- main of src/quakes.py: one browser session ----
    q_widgets,      \* the sidebar widgets: [city_name, radius_km, page]
    q_session,      \* st.session_state
    q_pc,           \* where the running script is, "idle" between two runs
    q_run,          \* what the current (or last) run did
    q_loads,        \* how many times 'Load Comprehensive Data' was clicked
    \* ---- the 'Quakes by Distance' pie of src/MegaReport/Xreport.py ----
    pie_distances,  \* the distance_km column of quakes_df
    pie_main,       \* the values main plots under the four labels, <<>> before
    pie_pdf,        \* the values generate_pdf_html plots under them, <<>> before
    \* ---- generate_pdf_html (src/MegaReport/Xreport.py) ----
    pdf_in,         \* the tables passed, and what the renderers do when called
    pdf_out,        \* the outcome and the document, NoPdf before the call
    \* ---- the Space Weather tab (src/Xreport.py) ----
    kp_value,       \* space_data['kp_index'] of the last run, as text
    kp_level,       \* the storm level shown for it, "none" when none is
    kp_answer       \* what the feed answered in that run

riskVars == <<magnitude, distance_km, tsunami, risk>>
callVars == <<fn, arg, pc, reqlog, ret, exc, caught, ui, resp>>

cacheVars == <<cache, now, calls, execs, hit>>

cityVars == <<city_base, city_name, coords>>

distVars == <<lat1, lon1, lat2, lon2, dist>>

probVars == <<omori, days, prob>>

xVars == <<x_widgets, x_session, x_pc, x_run>>

mVars == <<m_widgets, m_session, m_pc, m_run, m_found>>

qVars == <<q_widgets, q_session, q_pc, q_run, q_loads>>

pieVars == <<pie_distances, pie_main, pie_pdf>>

pdfVars == <<pdf_in, pdf_out>>

kpVars == <<kp_value, kp_level, kp_answer>>

\* the state of the apps' main scripts
appVars == <<xVars, mVars, qVars, pieVars, pdfVars, kpVars>>

vars == <<riskVars, callVars, cacheVars, cityVars, distVars, probVars, appVars>>
otherThanRisk == <<callVars, cacheVars, cityVars, distVars, probVars, appVars>>
otherThanCall == <<riskVars, cacheVars, cityVars, distVars, probVars, appVars>>
otherThanCache == <<riskVars, cityVars, distVars, probVars, appVars>>
otherThanCity == <<riskVars, callVars, cacheVars, distVars, probVars, appVars>>
otherThanDist == <<riskVars, callVars, cacheVars, cityVars, probVars, appVars>>
otherThanProb == <<riskVars, callVars, cacheVars, cityVars, distVars, appVars>>
baseVars == <<riskVars, cacheVars, cityVars, distVars, probVars>>
otherThanXMain == <<baseVars, mVars, qVars, pieVars, pdfVars, kpVars>>
otherThanMMain == <<baseVars, xVars, qVars, pieVars, pdfVars, kpVars>>
otherThanQMain == <<baseVars, xVars, mVars, pieVars, pdfVars, kpVars>>
otherThanPie == <<baseVars, callVars, xVars, mVars, qVars, pdfVars, kpVars>>
otherThanPdf == <<baseVars, callVars, xVars, mVars, qVars, pieVars, kpVars>>
otherThanKp == <<baseVars, xVars, mVars, qVars, pieVars, pdfVars>>

-----------------------------------------------------------------------------
(* classify_earthquake_risk, src/Xreport.py:152-167                        *)

MaxMagTenths == 95
MaxDistKm == 110

Magnitudes == 0..MaxMagTenths
Distances == 0..MaxDistKm

RiskLabels == {"LOW", "MINOR", "MODERATE", "SEVERE", "CRITICAL", "CATASTROPHIC"}

\* A plausible slip: each label written as a magnitude range, with the two
\* distance limits exchanged.
classify_earthquake_risk_swapped(m, d, t) ==
    IF t /\ m >= 70 THEN "CATASTROPHIC"
    ELSE IF m >= 80 THEN "CATASTROPHIC"
    ELSE IF m >= 70 THEN "CRITICAL"
    ELSE IF m >= 60 THEN "SEVERE"
    ELSE IF m >= 50 /\ d <= 50 THEN "MODERATE"
    ELSE IF m >= 40 /\ m < 50 /\ d <= 100 THEN "MINOR"
    ELSE "LOW"

\* A plausible slip: strict comparison at the 100 km limit.
classify_earthquake_risk_strict(m, d, t) ==
    IF t /\ m >= 70 THEN "CATASTROPHIC"
    ELSE IF m >= 80 THEN "CATASTROPHIC"
    ELSE IF m >= 70 THEN "CRITICAL"
    ELSE IF m >= 60 THEN "SEVERE"
    ELSE IF m >= 50 /\ d < 100 THEN "MODERATE"
    ELSE IF m >= 40 /\ d <= 50 THEN "MINOR"
    ELSE "LOW"

classify_earthquake_risk(m, d, t) ==
    IF t /\ m >= 70 THEN "CATASTROPHIC"
    ELSE IF m >= 80 THEN "CATASTROPHIC"
    ELSE IF m >= 70 THEN "CRITICAL"
    ELSE IF m >= 60 THEN "SEVERE"
    ELSE IF m >= 50 /\ d <= 100 THEN "MODERATE"
    ELSE IF m >= 40 /\ d <= 50 THEN "MINOR"
    ELSE "LOW"

InitRisk ==
    /\ magnitude \in Magnitudes
    /\ distance_km \in Distances
    /\ tsunami \in BOOLEAN
    /\ risk = "unset"

IdleRisk ==
    /\ magnitude = 0
    /\ distance_km = 0
    /\ tsunami = FALSE
    /\ risk = "unset"

ClassifyRisk ==
    /\ risk = "unset"
    /\ risk' = classify_earthquake_risk(magnitude, distance_km, tsunami)
    /\ UNCHANGED <<magnitude, distance_km, tsunami>>
    /\ UNCHANGED otherThanRisk

-----------------------------------------------------------------------------
(* Values, HTTP responses and exceptions shared by the fetch functions      *)

MaxItems == 2

\* San Francisco, the default of both report apps, and one other place.
SanFrancisco == [lat |-> 377749, lon |-> -1224194]
Elsewhere == [lat |-> 488566, lon |-> 23522]
Coords == {SanFrancisco, Elsewhere}
\* a place on the equator: its latitude is 0.0
Equator == [lat |-> 0, lon |-> 1093333]

\* The arguments of a call; a function reads the fields it takes.
NoArg == [lat |-> 0, lon |-> 0, city |-> "", url |-> "", country |-> ""]
At(c) == [NoArg EXCEPT !.lat = c.lat, !.lon = c.lon]
City(n) == [NoArg EXCEPT !.city = n]
Url(u) == [NoArg EXCEPT !.url = u]
AtIn(c, k) == [NoArg EXCEPT !.lat = c.lat, !.lon = c.lon, !.country = k]

\* A parsed JSON body.  shape tells which keys the document has; items are
\* the elements of its list (features, periods, rows): TRUE for an element
\* that has every key the code indexes, FALSE for one that lacks a key.
NoBody == [shape |-> "none", items |-> <<>>]

ItemSeqs == UNION {[1..n -> BOOLEAN] : n \in 0..MaxItems}

Bodies(shapes, listShapes) ==
    {[shape |-> s, items |-> <<>>] : s \in shapes \cup {"unparsable"}}
        \cup {[shape |-> s, items |-> i] : s \in listShapes, i \in ItemSeqs}

\* requests.get either raises or returns a response with a status and a body.
Statuses == {200, 203, 404, 500}
RequestErrors == {"ConnectionError", "Timeout"}

Responses(bodies) ==
    {[err |-> e, status |-> 0, body |-> NoBody] : e \in RequestErrors}
        \cup {[err |-> "none", status |-> s, body |-> b] : s \in Statuses, b \in bodies}

NoResponse == [err |-> "none", status |-> 0, body |-> NoBody]

\* Values a function returns.
NoVal == [kind |-> "unset", rows |-> <<>>, lat |-> 0, lon |-> 0, text |-> "", body |-> NoBody]
None == [NoVal EXCEPT !.kind = "None"]
Json(b) == [NoVal EXCEPT !.kind = "json", !.body = b]
DataFrame(r) == [NoVal EXCEPT !.kind = "DataFrame", !.rows = r]
Tuple(la, lo) == [NoVal EXCEPT !.kind = "tuple", !.lat = la, !.lon = lo]
NoneTuple == [NoVal EXCEPT !.kind = "tuple(None, None)"]

\* The base class of each exception class raised here (requests, geopy and
\* the built-in lookup errors).
BaseClass(e) ==
    CASE e \in {"ConnectionError", "Timeout", "HTTPError", "JSONDecodeError"} -> "RequestException"
      [] e \in {"KeyError", "IndexError"} -> "LookupError"
      [] e \in {"GeocoderTimedOut", "GeocoderUnavailable"} -> "GeocoderServiceError"
      [] e = "GeocoderServiceError" -> "GeopyError"
      [] e = "BaseException" -> "BaseException"
      [] e = "Exception" -> "BaseException"
      [] OTHER -> "Exception"

\* An except clause handles the class it names and every subclass of it.
Catches(clause, e) ==
    clause \in {e, BaseClass(e), BaseClass(BaseClass(e)), BaseClass(BaseClass(BaseClass(e)))}

\* What a piece of a function body does next.
Return(v, m) ==
    [next |-> "return", ret |-> v, exc |-> "none", caught |-> "none", msg |-> m, endpoint |-> "none"]
Raise(e) ==
    [next |-> "raise", ret |-> NoVal, exc |-> e, caught |-> "none", msg |-> "none", endpoint |-> "none"]
Request(ep) ==
    [next |-> "request", ret |-> NoVal, exc |-> "none", caught |-> "none", msg |-> "none", endpoint |-> ep]

\* try: body / except clause: handler
TryExcept(body, clause, handler) ==
    IF body.next = "raise" /\ Catches(clause, body.exc)
    THEN [handler EXCEPT !.caught = body.exc]
    ELSE body

\* response.raise_for_status()
HTTPErrorStatus(r) == r.status >= 400

Endpoint == IF reqlog = <<>> THEN "none" ELSE reqlog[Len(reqlog)].endpoint

IdleCall ==
    /\ fn = "none"
    /\ arg = NoArg
    /\ pc = "idle"
    /\ reqlog = <<>>
    /\ ret = NoVal
    /\ exc = "none"
    /\ caught = "none"
    /\ ui = "none"
    /\ resp = NoResponse

\* The effect of one piece of a function body on the invocation.
Step(log, o) ==
    /\ pc' = CASE o.next = "request" -> "request"
               [] o.next = "return" -> "returned"
               [] OTHER -> "raised"
    /\ reqlog' = IF o.next = "request"
                 THEN Append(log, [endpoint |-> o.endpoint, err |-> "none", status |-> 0])
                 ELSE log
    /\ ret' = o.ret
    /\ exc' = o.exc
    /\ caught' = o.caught
    /\ ui' = o.msg

\* A function is called with arguments a; o is what its body does first.
Begin(f, a, o) ==
    /\ pc = "idle"
    /\ fn' = f
    /\ arg' = a
    /\ resp' = NoResponse
    /\ Step(<<>>, o)

\* The request in flight is answered by r; o is what the body does with it.
Answer(r, o) ==
    /\ resp' = r
    /\ UNCHANGED <<fn, arg>>
    /\ Step([reqlog EXCEPT ![Len(reqlog)] = [@ EXCEPT !.err = r.err, !.status = r.status]], o)

\* The caller takes the result (or the run ends with the exception).
Resume ==
    /\ pc \in {"returned", "raised"}
    /\ fn' = "none"
    /\ arg' = NoArg
    /\ pc' = "idle"
    /\ reqlog' = <<>>
    /\ ret' = NoVal
    /\ exc' = "none"
    /\ caught' = "none"
    /\ ui' = "none"
    /\ resp' = NoResponse

-----------------------------------------------------------------------------
(* src/Xreport.py                                                           *)

GeocoderErrors == {"GeocoderTimedOut", "GeocoderUnavailable", "GeocoderServiceError"}

\* geolocator.geocode raises, finds nothing (None) or returns a location.
GeocoderResponses ==
    {[err |-> e, status |-> 0, body |-> NoBody] : e \in GeocoderErrors}
        \cup {[err |-> "none", status |-> 200, body |-> [shape |-> s, items |-> <<>>]] :
                s \in {"location", "equator", "nolocation"}}

\* the coordinates of the location the geocoder returned
Geocoded(r) == IF r.body.shape = "equator" THEN Equator ELSE Elsewhere

Location(c) == [NoVal EXCEPT !.kind = "location", !.lat = c.lat, !.lon = c.lon]
NotFound == [NoVal EXCEPT !.kind = "notfound"]

X_geocode_location_call(a) == Request("nominatim")

X_geocode_location_resp(r) ==
    TryExcept(
        IF r.err # "none" THEN Raise(r.err)
        ELSE IF r.body.shape # "nolocation" THEN Return(Location(Geocoded(r)), "none")
        ELSE Return(NotFound, "none"),
        "Exception",
        Return(NotFound, "Geocoding error"))

UsgsBodies == Bodies({"nofeatures", "notdict"}, {"geojson"})

X_fetch_earthquakes_call(a) == Request("usgs")

X_fetch_earthquakes_resp(r) ==
    TryExcept(
        IF r.err # "none" THEN Raise(r.err)
        ELSE IF HTTPErrorStatus(r) THEN Raise("HTTPError")
        ELSE IF r.body.shape = "unparsable" THEN Raise("JSONDecodeError")
        ELSE Return(Json(r.body), "none"),
        "Exception",
        Return(None, "Error fetching earthquake data"))

MeteoBodies == Bodies({"forecast"}, {})

X_fetch_weather_forecast_call(a) == Request("open-meteo")

X_fetch_weather_forecast_resp(r) ==
    TryExcept(
        IF r.err # "none" THEN Raise(r.err)
        ELSE IF HTTPErrorStatus(r) THEN Raise("HTTPError")
        ELSE IF r.body.shape = "unparsable" THEN Raise("JSONDecodeError")
        ELSE Return(Json(r.body), "none"),
        "Exception",
        Return(None, "Error fetching weather data"))

PointsBodies == Bodies({"points", "nokey"}, {})
AlertBodies == Bodies({"nofeatures", "notdict"}, {"geojson"})

X_fetch_weather_alerts_call(a) == Request("nws-points")

\* A plausible slip: the status of the points response is not looked at.
X_fetch_weather_alerts_resp_unchecked(r) ==
    TryExcept(
        IF r.err # "none" THEN Raise(r.err)
        ELSE IF Endpoint = "nws-points"
        THEN IF r.body.shape = "unparsable" THEN Raise("JSONDecodeError")
             ELSE IF r.body.shape # "points" THEN Raise("KeyError")
             ELSE Request("nws-office-alerts")
        ELSE IF r.status = 200
             THEN IF r.body.shape = "unparsable" THEN Raise("JSONDecodeError")
                  ELSE Return(Json(r.body), "none")
             ELSE Return(None, "none"),
        "Exception",
        Return(None, "none"))

X_fetch_weather_alerts_resp(r) ==
    TryExcept(
        IF r.err # "none" THEN Raise(r.err)
        ELSE IF Endpoint = "nws-points"
        THEN IF r.status = 200
             THEN IF r.body.shape = "unparsable" THEN Raise("JSONDecodeError")
                  ELSE IF r.body.shape # "points" THEN Raise("KeyError")
                  ELSE Request("nws-office-alerts")
             ELSE Return(None, "none")
        ELSE IF r.status = 200
             THEN IF r.body.shape = "unparsable" THEN Raise("JSONDecodeError")
                  ELSE Return(Json(r.body), "none")
             ELSE Return(None, "none"),
        "Exception",
        Return(None, "none"))

KpBodies == Bodies({"dict"}, {"rows"})

KpReading(v) == [NoVal EXCEPT !.kind = "dict", !.text = v]

X_fetch_space_weather_call(a) == Request("swpc-kp")

\* A plausible slip: only the errors of the requests library are handled.
X_fetch_space_weather_resp_narrow(r) ==
    TryExcept(
        IF r.err # "none" THEN Raise(r.err)
        ELSE IF r.status = 200
        THEN IF r.body.shape = "unparsable" THEN Raise("JSONDecodeError")
             ELSE IF r.body.shape = "dict" THEN Raise("KeyError")
             ELSE IF r.body.items = <<>> THEN Return(KpReading("N/A"), "none")
             ELSE IF ~r.body.items[Len(r.body.items)] THEN Raise("IndexError")
             ELSE Return(KpReading("kp"), "none")
        ELSE Return(KpReading("N/A"), "none"),
        "RequestException",
        Return(None, "Error fetching space weather"))

\* kp_data[-1][1]: the last row must have a second element.
X_fetch_space_weather_resp(r) ==
    TryExcept(
        IF r.err # "none" THEN Raise(r.err)
        ELSE IF r.status = 200
        THEN IF r.body.shape = "unparsable" THEN Raise("JSONDecodeError")
             ELSE IF r.body.shape = "dict" THEN Raise("KeyError")
             ELSE IF r.body.items = <<>> THEN Return(KpReading("N/A"), "none")
             ELSE IF ~r.body.items[Len(r.body.items)] THEN Raise("IndexError")
             ELSE Return(KpReading("kp"), "none")
        ELSE Return(KpReading("N/A"), "none"),
        "Exception",
        Return(None, "Error fetching space weather"))

NhcBodies == Bodies({"products"}, {})

X_fetch_hurricanes_call(a) == Request("nhc")

X_fetch_hurricanes_resp(r) ==
    TryExcept(
        IF r.err # "none" THEN Raise(r.err)
        ELSE IF r.status = 200
        THEN IF r.body.shape = "unparsable" THEN Raise("JSONDecodeError")
             ELSE Return(Json(r.body), "none")
        ELSE Return(None, "none"),
        "Exception",
        Return(None, "Error fetching hurricane data"))

-----------------------------------------------------------------------------
(* src/MegaReport/Xreport.py                                                *)

\* One row per element of the list, in its order: row i is element i.
Rows(items) == [i \in 1..Len(items) |-> i]
AllOk(items) == \A i \in 1..Len(items) : items[i]

\* s[:n]
FirstN(s, n) == SubSeq(s, 1, IF Len(s) < n THEN Len(s) ELSE n)

Cities == {"Paris", "Atlantis"}

M_geocode_location_call(a) == Request("nominatim")

M_geocode_location_resp(r) ==
    TryExcept(
        IF r.err # "none" THEN Raise(r.err)
        ELSE IF r.body.shape # "nolocation"
        THEN Return(Tuple(Geocoded(r).lat, Geocoded(r).lon), "none")
        ELSE Return(NoneTuple, "none"),
        "GeocoderTimedOut",
        Return(Tuple(377749, -1224194), "Geocoding timed out. Using default coordinates."))

M_fetch_earthquakes_call(a) == Request("usgs")

\* A plausible slip: a malformed feature is skipped and the others are kept.
M_fetch_earthquakes_resp_partial(r) ==
    TryExcept(
        IF r.err # "none" THEN Raise(r.err)
        ELSE IF HTTPErrorStatus(r) THEN Raise("HTTPError")
        ELSE IF r.body.shape = "unparsable" THEN Raise("JSONDecodeError")
        ELSE IF r.body.shape = "notdict" THEN Raise("AttributeError")
        ELSE IF r.body.shape = "nofeatures" THEN Return(DataFrame(<<>>), "none")
        ELSE Return(DataFrame(SelectSeq(Rows(r.body.items), LAMBDA i : r.body.items[i])), "none"),
        "Exception",
        Return(DataFrame(<<>>), "Earthquake API error"))

M_fetch_earthquakes_resp(r) ==
    TryExcept(
        IF r.err # "none" THEN Raise(r.err)
        ELSE IF HTTPErrorStatus(r) THEN Raise("HTTPError")
        ELSE IF r.body.shape = "unparsable" THEN Raise("JSONDecodeError")
        ELSE IF r.body.shape = "notdict" THEN Raise("AttributeError")
        ELSE IF r.body.shape = "nofeatures" THEN Return(DataFrame(<<>>), "none")
        ELSE IF ~AllOk(r.body.items) THEN Raise("KeyError")
        ELSE Return(DataFrame(Rows(r.body.items)), "none"),
        "Exception",
        Return(DataFrame(<<>>), "Earthquake API error"))

Grid(u) == [NoVal EXCEPT !.kind = "tuple", !.text = u]

M_get_weather_grid_call(a) == Request("nws-points")

M_get_weather_grid_resp(r) ==
    TryExcept(
        IF r.err # "none" THEN Raise(r.err)
        ELSE IF HTTPErrorStatus(r) THEN Raise("HTTPError")
        ELSE IF r.body.shape = "unparsable" THEN Raise("JSONDecodeError")
        ELSE IF r.body.shape # "points" THEN Raise("KeyError")
        ELSE Return(Grid("forecast_url"), "none"),
        "Exception",
        Return(NoneTuple, "NOAA grid fetch failed"))

\* The service answers with more periods than the 14 the function keeps; in
\* the second of these documents the period after the 14th lacks a key.
LongForecasts ==
    {[shape |-> "periods", items |-> [i \in 1..15 |-> ok \/ i <= 14]] : ok \in BOOLEAN}

ForecastBodies == Bodies({"nokey"}, {"periods"}) \cup LongForecasts
ForecastUrls == {"forecast_url", ""}

\* A plausible slip: the request is sent whatever the URL is.
M_fetch_forecast_call_always(a) == Request("nws-forecast")

\* `if not forecast_url` returns before any request.
M_fetch_forecast_call(a) ==
    IF a.url = "" THEN Return(DataFrame(<<>>), "none") ELSE Request("nws-forecast")

M_fetch_forecast_resp(r) ==
    TryExcept(
        IF r.err # "none" THEN Raise(r.err)
        ELSE IF HTTPErrorStatus(r) THEN Raise("HTTPError")
        ELSE IF r.body.shape = "unparsable" THEN Raise("JSONDecodeError")
        ELSE IF r.body.shape # "periods" THEN Raise("KeyError")
        ELSE IF ~AllOk(FirstN(r.body.items, 14)) THEN Raise("KeyError")
        ELSE Return(DataFrame(Rows(FirstN(r.body.items, 14))), "none"),
        "Exception",
        Return(DataFrame(<<>>), "Forecast fetch failed"))

Countries == {"US", "CA"}

M_fetch_alerts_call(a) == Request("nws-alerts")

\* A plausible slip: the rows built before the malformed feature are kept.
M_fetch_alerts_resp_partial(r) ==
    TryExcept(
        IF r.err # "none" THEN Raise(r.err)
        ELSE IF HTTPErrorStatus(r) THEN Raise("HTTPError")
        ELSE IF r.body.shape = "unparsable" THEN Raise("JSONDecodeError")
        ELSE IF r.body.shape = "notdict" THEN Raise("AttributeError")
        ELSE IF r.body.shape = "nofeatures" THEN Return(DataFrame(<<>>), "none")
        ELSE Return(DataFrame(Rows(SelectSeq(r.body.items, LAMBDA x : x))), "none"),
        "Exception",
        Return(DataFrame(<<>>), "Alerts fetch failed"))

M_fetch_alerts_resp(r) ==
    TryExcept(
        IF r.err # "none" THEN Raise(r.err)
        ELSE IF HTTPErrorStatus(r) THEN Raise("HTTPError")
        ELSE IF r.body.shape = "unparsable" THEN Raise("JSONDecodeError")
        ELSE IF r.body.shape = "notdict" THEN Raise("AttributeError")
        ELSE IF r.body.shape = "nofeatures" THEN Return(DataFrame(<<>>), "none")
        ELSE IF ~AllOk(r.body.items) THEN Raise("KeyError")
        ELSE Return(DataFrame(Rows(r.body.items)), "none"),
        "Exception",
        Return(DataFrame(<<>>), "Alerts fetch failed"))

-----------------------------------------------------------------------------
(* src/quakes.py                                                            *)

List(r) == [NoVal EXCEPT !.kind = "list", !.rows = r]

\* the magnitudes of get_fallback_earthquakes, in tenths
magnitudes == <<25, 31, 42, 28, 37, 51, 29, 35, 48, 32, 27, 41>>

\* the record get_fallback_earthquakes builds from entry i (usgs_id i stands
\* for 'fallback_i'; i is the enumerate index plus one)
fallback_earthquake(i) ==
    [usgs_id |-> i,
     magnitude |-> magnitudes[i],
     significance |-> (magnitudes[i] * 50) \div 10,
     tsunami |-> IF magnitudes[i] > 65 THEN 1 ELSE 0]

\* get_fallback_earthquakes: one record per entry of its magnitude list.
get_fallback_earthquakes ==
    [NoVal EXCEPT !.kind = "fallback", !.rows = [i \in 1..Len(magnitudes) |-> i]]

Q_get_earthquake_data_call(a) == Request("usgs")

\* A plausible slip: a failed request is issued once more.
Q_get_earthquake_data_resp_retry(r) ==
    IF (r.err # "none" \/ r.status # 200) /\ Len(reqlog) < 2
    THEN Request("usgs")
    ELSE TryExcept(
        IF r.err # "none" THEN Raise(r.err)
        ELSE IF r.status = 200
        THEN IF r.body.shape = "unparsable" THEN Raise("JSONDecodeError")
             ELSE IF r.body.shape = "notdict" THEN Raise("AttributeError")
             ELSE IF r.body.items # <<>> THEN Return(List(Rows(r.body.items)), "none")
             ELSE Return(get_fallback_earthquakes, "none")
        ELSE Return(get_fallback_earthquakes, "none"),
        "Exception",
        Return(get_fallback_earthquakes, "Error fetching USGS earthquake data"))

\* A plausible slip: the list built from a response is returned even when
\* it is empty.
Q_get_earthquake_data_resp_empty(r) ==
    TryExcept(
        IF r.err # "none" THEN Raise(r.err)
        ELSE IF r.status = 200
        THEN IF r.body.shape = "unparsable" THEN Raise("JSONDecodeError")
             ELSE IF r.body.shape = "notdict" THEN Raise("AttributeError")
             ELSE Return(List(Rows(r.body.items)), "none")
        ELSE Return(get_fallback_earthquakes, "none"),
        "Exception",
        Return(get_fallback_earthquakes, "Error fetching USGS earthquake data"))

\* Every key is read with .get and a default, so an element that lacks keys
\* still gives a record; a document that is no dict raises AttributeError.
Q_get_earthquake_data_resp(r) ==
    TryExcept(
        IF r.err # "none" THEN Raise(r.err)
        ELSE IF r.status = 200
        THEN IF r.body.shape = "unparsable" THEN Raise("JSONDecodeError")
             ELSE IF r.body.shape = "notdict" THEN Raise("AttributeError")
             ELSE IF r.body.items # <<>> THEN Return(List(Rows(r.body.items)), "none")
             ELSE Return(get_fallback_earthquakes, "none")
        ELSE Return(get_fallback_earthquakes, "none"),
        "Exception",
        Return(get_fallback_earthquakes, "Error fetching USGS earthquake data"))

-----------------------------------------------------------------------------
(* The invocations: each function is called, and each request it has in    *)
(* flight is answered.                                                     *)

X_geocode_location_Call ==
    \E q \in Cities :
        Begin("X.geocode_location", City(q), X_geocode_location_call(City(q)))

X_geocode_location_Resp ==
    /\ fn = "X.geocode_location"
    /\ pc = "request"
    /\ \E r \in GeocoderResponses :
        Answer(r, X_geocode_location_resp(r))

X_fetch_earthquakes_Call ==
    \E c \in Coords :
        Begin("X.fetch_earthquakes", At(c), X_fetch_earthquakes_call(At(c)))

X_fetch_earthquakes_Resp ==
    /\ fn = "X.fetch_earthquakes"
    /\ pc = "request"
    /\ \E r \in Responses(UsgsBodies) :
        Answer(r, X_fetch_earthquakes_resp(r))

X_fetch_weather_forecast_Call ==
    \E c \in Coords :
        Begin("X.fetch_weather_forecast", At(c), X_fetch_weather_forecast_call(At(c)))

X_fetch_weather_forecast_Resp ==
    /\ fn = "X.fetch_weather_forecast"
    /\ pc = "request"
    /\ \E r \in Responses(MeteoBodies) :
        Answer(r, X_fetch_weather_forecast_resp(r))

X_fetch_weather_alerts_Call ==
    \E c \in Coords :
        Begin("X.fetch_weather_alerts", At(c), X_fetch_weather_alerts_call(At(c)))

X_fetch_weather_alerts_Resp ==
    /\ fn = "X.fetch_weather_alerts"
    /\ pc = "request"
    /\ \E r \in Responses(IF Endpoint = "nws-points" THEN PointsBodies ELSE AlertBodies) :
        Answer(r, X_fetch_weather_alerts_resp(r))

X_fetch_space_weather_Call ==
    Begin("X.fetch_space_weather", NoArg, X_fetch_space_weather_call(NoArg))

X_fetch_space_weather_Resp ==
    /\ fn = "X.fetch_space_weather"
    /\ pc = "request"
    /\ \E r \in Responses(KpBodies) :
        Answer(r, X_fetch_space_weather_resp(r))

X_fetch_hurricanes_Call ==
    Begin("X.fetch_hurricanes", NoArg, X_fetch_hurricanes_call(NoArg))

X_fetch_hurricanes_Resp ==
    /\ fn = "X.fetch_hurricanes"
    /\ pc = "request"
    /\ \E r \in Responses(NhcBodies) :
        Answer(r, X_fetch_hurricanes_resp(r))

M_geocode_location_Call ==
    \E q \in Cities :
        Begin("M.geocode_location", City(q), M_geocode_location_call(City(q)))

M_geocode_location_Resp ==
    /\ fn = "M.geocode_location"
    /\ pc = "request"
    /\ \E r \in GeocoderResponses :
        Answer(r, M_geocode_location_resp(r))

M_fetch_earthquakes_Call ==
    \E c \in Coords :
        Begin("M.fetch_earthquakes", At(c), M_fetch_earthquakes_call(At(c)))

M_fetch_earthquakes_Resp ==
    /\ fn = "M.fetch_earthquakes"
    /\ pc = "request"
    /\ \E r \in Responses(UsgsBodies) :
        Answer(r, M_fetch_earthquakes_resp(r))

M_get_weather_grid_Call ==
    \E c \in Coords :
        Begin("M.get_weather_grid", At(c), M_get_weather_grid_call(At(c)))

M_get_weather_grid_Resp ==
    /\ fn = "M.get_weather_grid"
    /\ pc = "request"
    /\ \E r \in Responses(PointsBodies) :
        Answer(r, M_get_weather_grid_resp(r))

M_fetch_forecast_Call ==
    \E u \in ForecastUrls :
        Begin("M.fetch_forecast", Url(u), M_fetch_forecast_call(Url(u)))

M_fetch_forecast_Resp ==
    /\ fn = "M.fetch_forecast"
    /\ pc = "request"
    /\ \E r \in Responses(ForecastBodies) :
        Answer(r, M_fetch_forecast_resp(r))

M_fetch_alerts_Call ==
    \E c \in Coords, k \in Countries :
        Begin("M.fetch_alerts", AtIn(c, k), M_fetch_alerts_call(AtIn(c, k)))

M_fetch_alerts_Resp ==
    /\ fn = "M.fetch_alerts"
    /\ pc = "request"
    /\ \E r \in Responses(AlertBodies) :
        Answer(r, M_fetch_alerts_resp(r))

Q_get_earthquake_data_Call ==
    \E c \in Coords :
        Begin("Q.get_earthquake_data", At(c), Q_get_earthquake_data_call(At(c)))

Q_get_earthquake_data_Resp ==
    /\ fn = "Q.get_earthquake_data"
    /\ pc = "request"
    /\ \E r \in Responses(UsgsBodies) :
        Answer(r, Q_get_earthquake_data_resp(r))

-----------------------------------------------------------------------------
(* @st.cache_data(ttl=...) of src/MegaReport/Xreport.py                     *)

MaxCalls == 2
MaxClock == 3600

\* The ttl each decorator gives, in seconds.
TTL(f) ==
    CASE f = "M.geocode_location" -> 3600
      [] f = "M.fetch_earthquakes" -> 1800
      [] f = "M.get_weather_grid" -> 1800
      [] f = "M.fetch_forecast" -> 1800
      [] f = "M.fetch_alerts" -> 900

\* The entries for these arguments that have not expired.
Cached(f, a) == {e \in cache : e.fn = f /\ e.arg = a /\ now - e.at < TTL(f)}

Store(f, a, v) ==
    {e \in cache : ~(e.fn = f /\ e.arg = a)} \cup {[fn |-> f, arg |-> a, val |-> v, at |-> now]}

IdleCache ==
    /\ cache = {}
    /\ now = 0
    /\ calls = 0
    /\ execs = <<>>
    /\ hit = FALSE

\* A call of a decorated function: a stored result that has not expired is
\* returned without executing the body; otherwise the body starts, and a
\* body that returns at once has its result stored.
CachedCall(f, a, o) ==
    /\ calls < MaxCalls
    /\ calls' = calls + 1
    /\ now' = now
    /\ IF Cached(f, a) # {}
       THEN /\ \E e \in Cached(f, a) : Begin(f, a, Return(e.val, "none"))
            /\ hit' = TRUE
            /\ UNCHANGED <<cache, execs>>
       ELSE /\ Begin(f, a, o)
            /\ hit' = FALSE
            /\ execs' = Append(execs, [fn |-> f, arg |-> a, at |-> now])
            /\ cache' = IF o.next = "return" THEN Store(f, a, o.ret) ELSE cache

\* The body ends: a returned value is stored, an exception stores nothing.
CachedAnswer ==
    /\ cache' = IF pc' = "returned" THEN Store(fn, arg, ret') ELSE cache
    /\ UNCHANGED <<now, calls, execs, hit>>

\* Time passes between calls.
Tick ==
    /\ pc = "idle"
    /\ now + 900 <= MaxClock
    /\ now' = now + 900
    /\ UNCHANGED <<cache, calls, execs, hit>>
    /\ UNCHANGED callVars

Cached_M_geocode_location ==
    \E q \in Cities :
        CachedCall("M.geocode_location", City(q), M_geocode_location_call(City(q)))

Cached_M_fetch_earthquakes ==
    \E c \in Coords :
        CachedCall("M.fetch_earthquakes", At(c), M_fetch_earthquakes_call(At(c)))

Cached_M_get_weather_grid ==
    \E c \in Coords :
        CachedCall("M.get_weather_grid", At(c), M_get_weather_grid_call(At(c)))

Cached_M_fetch_forecast ==
    \E u \in ForecastUrls :
        CachedCall("M.fetch_forecast", Url(u), M_fetch_forecast_call(Url(u)))

Cached_M_fetch_alerts ==
    \E c \in Coords, k \in Countries :
        CachedCall("M.fetch_alerts", AtIn(c, k), M_fetch_alerts_call(AtIn(c, k)))

NextCache ==
    \/ Cached_M_geocode_location /\ UNCHANGED otherThanCache
    \/ M_geocode_location_Resp /\ CachedAnswer /\ UNCHANGED otherThanCache
    \/ Cached_M_fetch_earthquakes /\ UNCHANGED otherThanCache
    \/ M_fetch_earthquakes_Resp /\ CachedAnswer /\ UNCHANGED otherThanCache
    \/ Cached_M_get_weather_grid /\ UNCHANGED otherThanCache
    \/ M_get_weather_grid_Resp /\ CachedAnswer /\ UNCHANGED otherThanCache
    \/ Cached_M_fetch_forecast /\ UNCHANGED otherThanCache
    \/ M_fetch_forecast_Resp /\ CachedAnswer /\ UNCHANGED otherThanCache
    \/ Cached_M_fetch_alerts /\ UNCHANGED otherThanCache
    \/ M_fetch_alerts_Resp /\ CachedAnswer /\ UNCHANGED otherThanCache
    \/ Resume /\ UNCHANGED cacheVars /\ UNCHANGED otherThanCache
    \/ Tick /\ UNCHANGED otherThanCache

\* In Spec every call of a function of src/MegaReport/Xreport.py executes its
\* body, as a call does whose arguments are not in the cache; SpecCache adds
\* the st.cache_data decorator in front of the same bodies.
Next ==
    \/ X_geocode_location_Call /\ UNCHANGED otherThanCall
    \/ X_geocode_location_Resp /\ UNCHANGED otherThanCall
    \/ X_fetch_earthquakes_Call /\ UNCHANGED otherThanCall
    \/ X_fetch_earthquakes_Resp /\ UNCHANGED otherThanCall
    \/ X_fetch_weather_forecast_Call /\ UNCHANGED otherThanCall
    \/ X_fetch_weather_forecast_Resp /\ UNCHANGED otherThanCall
    \/ X_fetch_weather_alerts_Call /\ UNCHANGED otherThanCall
    \/ X_fetch_weather_alerts_Resp /\ UNCHANGED otherThanCall
    \/ X_fetch_space_weather_Call /\ UNCHANGED otherThanCall
    \/ X_fetch_space_weather_Resp /\ UNCHANGED otherThanCall
    \/ X_fetch_hurricanes_Call /\ UNCHANGED otherThanCall
    \/ X_fetch_hurricanes_Resp /\ UNCHANGED otherThanCall
    \/ M_geocode_location_Call /\ UNCHANGED otherThanCall
    \/ M_geocode_location_Resp /\ UNCHANGED otherThanCall
    \/ M_fetch_earthquakes_Call /\ UNCHANGED otherThanCall
    \/ M_fetch_earthquakes_Resp /\ UNCHANGED otherThanCall
    \/ M_get_weather_grid_Call /\ UNCHANGED otherThanCall
    \/ M_get_weather_grid_Resp /\ UNCHANGED otherThanCall
    \/ M_fetch_forecast_Call /\ UNCHANGED otherThanCall
    \/ M_fetch_forecast_Resp /\ UNCHANGED otherThanCall
    \/ M_fetch_alerts_Call /\ UNCHANGED otherThanCall
    \/ M_fetch_alerts_Resp /\ UNCHANGED otherThanCall
    \/ Q_get_earthquake_data_Call /\ UNCHANGED otherThanCall
    \/ Q_get_earthquake_data_Resp /\ UNCHANGED otherThanCall
    \/ Resume /\ UNCHANGED otherThanCall

-----------------------------------------------------------------------------
(* GeoWeatherIntelligence.get_city_coordinates, src/quakes.py:153-183       *)
(* A string is a sequence of one-character strings.                         *)

city_coordinates ==
    {
    [key |-> <<"l", "o", "n", "d", "o", "n">>,
     value |-> <<515074, -1278>>],
    [key |-> <<"n", "e", "w", " ", "y", "o", "r", "k">>,
     value |-> <<407128, -740060>>],
    [key |-> <<"t", "o", "k", "y", "o">>,
     value |-> <<356762, 1396503>>],
    [key |-> <<"p", "a", "r", "i", "s">>,
     value |-> <<488566, 23522>>],
    [key |-> <<"s", "y", "d", "n", "e", "y">>,
     value |-> <<-338688, 1512093>>],
    [key |-> <<"l", "o", "s", " ", "a", "n", "g", "e", "l", "e", "s">>,
     value |-> <<340522, -1182437>>],
    [key |-> <<"c", "h", "i", "c", "a", "g", "o">>,
     value |-> <<418781, -876298>>],
    [key |-> <<"t", "o", "r", "o", "n", "t", "o">>,
     value |-> <<436532, -793832>>],
    [key |-> <<"m", "u", "m", "b", "a", "i">>,
     value |-> <<190760, 728777>>],
    [key |-> <<"b", "e", "r", "l", "i", "n">>,
     value |-> <<525200, 134050>>],
    [key |-> <<"d", "u", "b", "a", "i">>,
     value |-> <<252048, 552708>>],
    [key |-> <<"s", "i", "n", "g", "a", "p", "o", "r", "e">>,
     value |-> <<13521, 1038198>>],
    [key |-> <<"s", "e", "o", "u", "l">>,
     value |-> <<375665, 1269780>>],
    [key |-> <<"m", "o", "s", "c", "o", "w">>,
     value |-> <<557558, 376173>>],
    [key |-> <<"c", "a", "i", "r", "o">>,
     value |-> <<300444, 312357>>],
    [key |-> <<"l", "o", "n", "d", "o", "n", " ", "u", "k">>,
     value |-> <<515074, -1278>>],
    [key |-> <<"n", "e", "w", " ", "y", "o", "r", "k", " ", "c", "i", "t", "y">>,
     value |-> <<407128, -740060>>],
    [key |-> <<"s", "a", "n", " ", "f", "r", "a", "n", "c", "i", "s", "c", "o">>,
     value |-> <<377749, -1224194>>],
    [key |-> <<"t", "o", "k", "y", "o", " ", "j", "a", "p", "a", "n">>,
     value |-> <<356762, 1396503>>]
    }

LowerCase == <<"a", "b", "c", "d", "e", "f", "g", "h", "i", "j", "k", "l", "m",
               "n", "o", "p", "q", "r", "s", "t", "u", "v", "w", "x", "y", "z">>
UpperCase == <<"A", "B", "C", "D", "E", "F", "G", "H", "I", "J", "K", "L", "M",
               "N", "O", "P", "Q", "R", "S", "T", "U", "V", "W", "X", "Y", "Z">>
Whitespace == {" ", "\t", "\n"}

\* str.lower(), character by character
lower_char(c) ==
    IF \E i \in 1..26 : UpperCase[i] = c
    THEN LowerCase[CHOOSE i \in 1..26 : UpperCase[i] = c]
    ELSE c

lower(s) == [i \in 1..Len(s) |-> lower_char(s[i])]

\* str.strip(): the whitespace at both ends is removed, inner whitespace stays
RECURSIVE lstrip(_)
lstrip(s) == IF s # <<>> /\ Head(s) \in Whitespace THEN lstrip(Tail(s)) ELSE s

RECURSIVE rstrip(_)
rstrip(s) ==
    IF s # <<>> /\ s[Len(s)] \in Whitespace THEN rstrip(SubSeq(s, 1, Len(s) - 1)) ELSE s

strip(s) == rstrip(lstrip(s))

London == <<515074, -1278>>

\* A plausible slip: the name is lower-cased but not stripped.
get_city_coordinates_nostrip(name) ==
    LET city_lower == lower(name)
        found == {e \in city_coordinates : e.key = city_lower}
    IN  IF found # {} THEN (CHOOSE e \in found : TRUE).value ELSE London

get_city_coordinates(name) ==
    LET city_lower == strip(lower(name))
        found == {e \in city_coordinates : e.key = city_lower}
    IN  IF found # {} THEN (CHOOSE e \in found : TRUE).value ELSE London

\* The texts a user types: a name, in some casing, with some padding.
OtherNames ==
    {<<"r", "o", "m", "e">>,
     <<"n", "e", "w", " ", " ", "y", "o", "r", "k">>,
     <<"l", "o", "n", " ", "d", "o", "n">>,
     <<"l", "o", "n", "d", "o", "n", "u", "k">>,
     <<>>}

TableKeys == {e.key : e \in city_coordinates}
BaseNames == TableKeys \cup OtherNames

upper_char(c) ==
    IF \E i \in 1..26 : LowerCase[i] = c
    THEN UpperCase[CHOOSE i \in 1..26 : LowerCase[i] = c]
    ELSE c

Casings == {"lower", "UPPER", "Title", "aLTERNATE"}

Cased(s, casing) ==
    [i \in 1..Len(s) |->
        CASE casing = "lower" -> s[i]
          [] casing = "UPPER" -> upper_char(s[i])
          [] casing = "Title" -> IF i = 1 THEN upper_char(s[i]) ELSE s[i]
          [] OTHER -> IF i % 2 = 0 THEN upper_char(s[i]) ELSE s[i]]

Paddings == {<<>>, <<" ">>, <<"\t", " ">>, <<" ", "\n">>}

Typed(base, casing, left, right) == left \o Cased(base, casing) \o right

InitCity ==
    /\ city_base \in BaseNames
    /\ \E casing \in Casings, left \in Paddings, right \in Paddings :
          city_name = Typed(city_base, casing, left, right)
    /\ coords = <<>>

IdleCity ==
    /\ city_base = <<>>
    /\ city_name = <<>>
    /\ coords = <<>>

GetCityCoordinates ==
    /\ coords = <<>>
    /\ coords' = get_city_coordinates(city_name)
    /\ UNCHANGED <<city_base, city_name>>
    /\ UNCHANGED otherThanCity

-----------------------------------------------------------------------------
(* haversine, src/MegaReport/Xreport.py:82-88                               *)
(* Floating-point values are kept as integers in units of 1e-4; every       *)
(* arithmetic operation and every library function rounds its exact result  *)
(* to the nearest unit, as each float64 operation rounds to the nearest     *)
(* float.  np.sqrt of a negative number is nan, and nan propagates.         *)

R == 6371

Lats == {-82, -8, 0, 8, 82}
Lons == {-180, -90, 0, 90, 180}

Abs(x) == IF x < 0 THEN -x ELSE x

\* n / d rounded to the nearest integer
RoundDiv(n, d) == IF n >= 0 THEN (2 * n + d) \div (2 * d) ELSE -((2 * (-n) + d) \div (2 * d))

Mul(x, y) == RoundDiv(x * y, 10000)

\* np.sin and np.cos of an angle given in degrees, rounded to 1e-4
SinTable == {<<0, 0>>, <<4, 698>>, <<8, 1392>>, <<37, 6018>>, <<41, 6561>>, <<45, 7071>>, <<82, 9903>>, <<90, 10000>>, <<135, 7071>>, <<180, 0>>}
CosTable == {<<0, 10000>>, <<8, 9903>>, <<82, 1392>>}

np_sin(deg) ==
    LET v == (CHOOSE e \in SinTable : e[1] = Abs(deg))[2]
    IN  IF deg < 0 THEN -v ELSE v

np_cos(deg) == (CHOOSE e \in CosTable : e[1] = Abs(deg))[2]

\* np.sqrt of a value >= 0, rounded to the nearest unit
np_sqrt(v) ==
    LET floor == CHOOSE r \in 0..10001 : r * r <= v * 10000 /\ (r + 1) * (r + 1) > v * 10000
    IN  IF v * 10000 - floor * floor > floor THEN floor + 1 ELSE floor

\* arctan on [0, 1], within 0.004 rad: z*pi/4 + 0.273*z*(1 - z)
arctan_unit(z) == RoundDiv(7854 * z, 10000) + RoundDiv(2730 * Mul(z, 10000 - z), 10000)

\* np.arctan2(y, x) for y >= 0 and x >= 0
np_arctan2(y, x) ==
    IF y = 0 THEN 0
    ELSE IF y <= x THEN arctan_unit(RoundDiv(y * 10000, x))
    ELSE 15708 - arctan_unit(RoundDiv(x * 10000, y))

NaN == [nan |-> TRUE, km |-> 0]
Km(k) == [nan |-> FALSE, km |-> k]

haversine(la1, lo1, la2, lo2) ==
    LET dlat == la2 - la1
        dlon == lo2 - lo1
        sdlat == np_sin(dlat \div 2)
        sdlon == np_sin(dlon \div 2)
        a == Mul(sdlat, sdlat) + Mul(Mul(np_cos(la1), np_cos(la2)), Mul(sdlon, sdlon))
    IN  IF 10000 - a < 0
        THEN NaN
        ELSE Km(RoundDiv(R * 2 * np_arctan2(np_sqrt(a), np_sqrt(10000 - a)), 10000))

InitDist ==
    /\ lat1 \in Lats
    /\ lon1 \in Lons
    /\ lat2 \in Lats
    /\ lon2 \in Lons
    /\ dist = Km(-1)

IdleDist ==
    /\ lat1 = 0
    /\ lon1 = 0
    /\ lat2 = 0
    /\ lon2 = 0
    /\ dist = Km(-1)

\* dist = haversine(lat, lon, coords[1], coords[0])
Haversine ==
    /\ dist = Km(-1)
    /\ dist' = haversine(lat1, lon1, lat2, lon2)
    /\ UNCHANGED <<lat1, lon1, lat2, lon2>>
    /\ UNCHANGED otherThanDist

-----------------------------------------------------------------------------
(* calculate_aftershock_probability: rate = K / (c + days)^p,               *)
(* prob = 1 - exp(-rate * 7 * 0.05).  The function is in none of the files  *)
(* under src/; it is modelled from section 4 of the specification, which    *)
(* gives the formula and not the constants.  Omori's law has K > 0, c > 0   *)
(* and p > 0.  Values are integers in units of 1e-4 and every operation     *)
(* rounds down.                                                             *)

MaxDays == 30

Days == 0..MaxDays

\* Sample constants: K, c (hundredths of a day), p.
OmoriConstants == [K : {1, 10}, c : {5, 100}, p : {1, 2}]

\* x * y / 10000 rounded down, computed without overflow
MulDown(x, y) == (x \div 10000) * y + ((x % 10000) * y) \div 10000

\* exp(x) for 0 <= x < 10: the sum of the series 1 + x + x^2/2! + ...
RECURSIVE ExpSeries(_, _, _)
ExpSeries(x, term, k) ==
    IF term = 0 THEN 0 ELSE term + ExpSeries(x, MulDown(term, x) \div k, k + 1)

\* exp(-x) for x >= 0; below 1e-4 from x = 10 on
ExpNeg(x) == IF x >= 100000 THEN 0 ELSE 100000000 \div ExpSeries(x, 10000, 1)

\* K / (c + days)^p
OmoriRate(o, d) ==
    LET cd == o.c + 100 * d
        r1 == (o.K * 1000000) \div cd
    IN  IF o.p = 1 THEN r1 ELSE (r1 * 100) \div cd

\* A plausible slip: the decay term multiplies instead of dividing.
calculate_aftershock_probability_growing(o, d) ==
    LET cd == o.c + 100 * d
        rate == IF o.p = 1 THEN o.K * cd * 100 ELSE o.K * cd * cd
    IN  10000 - ExpNeg(IF rate >= 1000000 THEN 100000 ELSE (rate * 7 * 5) \div 100)

calculate_aftershock_probability(o, d) ==
    LET rate == OmoriRate(o, d)
    IN  10000 - ExpNeg((rate * 7 * 5) \div 100)

InitProb ==
    /\ omori \in OmoriConstants
    /\ days \in Days
    /\ prob = -1

IdleProb ==
    /\ omori = [K |-> 1, c |-> 5, p |-> 1]
    /\ days = 0
    /\ prob = -1

AftershockProbability ==
    /\ prob = -1
    /\ prob' = calculate_aftershock_probability(omori, days)
    /\ UNCHANGED <<omori, days>>
    /\ UNCHANGED otherThanProb

-----------------------------------------------------------------------------
(* main of src/Xreport.py.  Streamlit runs the script from top to bottom    *)
(* once per user event; st.session_state outlives the run, local variables  *)
(* do not.  A run is modelled position by position: the sidebar, the        *)
(* geocode call, then one fetch after the other, each an invocation of the  *)
(* function as modelled above.                                              *)

X_Methods == {"City/Address", "Coordinates"}
X_Radii == {500, 250}

\* one user event starts one run; "none" is the first load or a rerun
X_Events == {"none", "method", "coords", "sliders", "geocode", "refresh", "pdf"}

X_NoRun ==
    [event |-> "none", geocode |-> "none", tabs |-> FALSE, notice |-> FALSE,
     fetched |-> <<>>, ended |-> "none"]

\* location_data['success']
X_success(l) == l.kind = "location"

\* the location_data built from the two number inputs
X_custom_location(c) == [Location(c) EXCEPT !.text = "Custom Location"]

IdleXMain ==
    /\ x_widgets = [input_method |-> "City/Address", at |-> SanFrancisco, radius_km |-> 500]
    /\ x_session = [location |-> NoVal, params |-> 0]
    /\ x_pc = "idle"
    /\ x_run = X_NoRun

\* A plausible slip: the result of the geocoder is stored whatever it is.
X_main_geocode_click_always(session, location_data) ==
    [session EXCEPT !.location = location_data]

\* `if location_data['success']: st.session_state['location'] = location_data`
X_main_geocode_click(session, location_data) ==
    IF X_success(location_data)
    THEN [session EXCEPT !.location = location_data]
    ELSE session

\* the sliders are drawn, and params stored, only under a successful location
X_main_params(session, w) ==
    IF X_success(session.location)
    THEN [session EXCEPT !.params = w.radius_km]
    ELSE session

\* A plausible slip: the gate tests the local variable of this run.
X_main_gate_local(session, location_data) == X_success(location_data)

\* the main content is reached: 'location' in session and its success is true
X_main_gate(session, location_data) == X_success(session.location)

\* From the end of the location block to the first tab.
X_main_after_location(session, w, location_data, run) ==
    LET s2 == X_main_params(session, w)
    IN  IF run.event = "refresh"
        THEN [session |-> s2, pc |-> "idle", run |-> [run EXCEPT !.ended = "rerun"]]
        ELSE IF ~X_main_gate(s2, location_data)
        THEN [session |-> s2, pc |-> "idle",
              run |-> [run EXCEPT !.notice = TRUE, !.ended = "return"]]
        ELSE [session |-> s2, pc |-> "tab1", run |-> [run EXCEPT !.tabs = TRUE]]

\* The widget values w a run starts with, given the event e that started it.
X_main_event(e, w) ==
    /\ x_run.ended = "rerun" => e = "none"
    /\ CASE e = "method" ->
                /\ w.input_method # x_widgets.input_method
                /\ w = [x_widgets EXCEPT !.input_method = w.input_method]
         [] e = "coords" ->
                /\ x_widgets.input_method = "Coordinates"
                /\ w.at # x_widgets.at
                /\ w = [x_widgets EXCEPT !.at = w.at]
         [] e = "sliders" ->
                /\ X_success(x_session.location)
                /\ w.radius_km # x_widgets.radius_km
                /\ w = [x_widgets EXCEPT !.radius_km = w.radius_km]
         [] e = "geocode" -> x_widgets.input_method = "City/Address" /\ w = x_widgets
         [] e = "pdf" -> x_run.ended = "end" /\ w = x_widgets
         [] OTHER -> w = x_widgets

\* A run starts and goes as far as its first call.
X_main_Start ==
    /\ x_pc = "idle"
    /\ pc = "idle"
    /\ \E e \in X_Events, w \in [input_method : X_Methods, at : Coords, radius_km : X_Radii] :
        /\ X_main_event(e, w)
        /\ x_widgets' = w
        /\ LET run == [X_NoRun EXCEPT !.event = e, !.ended = "running"]
               ld == X_custom_location(w.at)
               out == IF w.input_method = "City/Address"
                      THEN X_main_after_location(x_session, w, None, run)
                      ELSE X_main_after_location([x_session EXCEPT !.location = ld], w, ld, run)
           IN  IF w.input_method = "City/Address" /\ e = "geocode"
               THEN /\ \E q \in Cities :
                         Begin("X.geocode_location", City(q), X_geocode_location_call(City(q)))
                    /\ x_pc' = "geocode"
                    /\ x_run' = run
                    /\ UNCHANGED x_session
               ELSE /\ x_session' = out.session
                    /\ x_pc' = out.pc
                    /\ x_run' = out.run
                    /\ UNCHANGED callVars

\* geocode_location has returned into the sidebar.
X_main_Geocoded ==
    /\ x_pc = "geocode"
    /\ fn = "X.geocode_location"
    /\ pc \in {"returned", "raised"}
    /\ Resume
    /\ LET run == [x_run EXCEPT !.geocode = IF X_success(ret) THEN "found" ELSE "failed"]
           out == X_main_after_location(X_main_geocode_click(x_session, ret), x_widgets, ret, run)
       IN  IF pc = "raised"
           THEN /\ x_run' = [x_run EXCEPT !.ended = "raised"]
                /\ x_pc' = "idle"
                /\ UNCHANGED x_session
           ELSE /\ x_session' = out.session
                /\ x_pc' = out.pc
                /\ x_run' = out.run
    /\ UNCHANGED x_widgets

X_FetchPositions ==
    {"tab1", "tab2", "alerts", "tab3", "tab4", "pdf_eq", "pdf_weather", "pdf_space", "pdf_alerts"}

\* the function called at each position of the main content
X_main_fn(pos) ==
    CASE pos \in {"tab1", "pdf_eq"} -> "X.fetch_earthquakes"
      [] pos \in {"tab2", "pdf_weather"} -> "X.fetch_weather_forecast"
      [] pos \in {"alerts", "pdf_alerts"} -> "X.fetch_weather_alerts"
      [] pos \in {"tab3", "pdf_space"} -> "X.fetch_space_weather"
      [] OTHER -> "X.fetch_hurricanes"

X_main_arg(f, location) ==
    IF f \in {"X.fetch_space_weather", "X.fetch_hurricanes"} THEN NoArg ELSE At(location)

X_main_call(f, a) ==
    CASE f = "X.fetch_earthquakes" -> X_fetch_earthquakes_call(a)
      [] f = "X.fetch_weather_forecast" -> X_fetch_weather_forecast_call(a)
      [] f = "X.fetch_weather_alerts" -> X_fetch_weather_alerts_call(a)
      [] f = "X.fetch_space_weather" -> X_fetch_space_weather_call(a)
      [] OTHER -> X_fetch_hurricanes_call(a)

\* process_earthquake_data indexes every feature: one that lacks a key raises
process_earthquake_data_raises(v) ==
    v.kind = "json" /\ v.body.shape = "geojson" /\ ~AllOk(v.body.items)

\* What the script does with the value v fetched at position pos: the next
\* position, "end" after the last tab, "raise" when the rendering raises.
X_main_render(pos, v, event) ==
    CASE pos = "tab1" -> IF process_earthquake_data_raises(v) THEN "raise" ELSE "tab2"
      [] pos = "tab2" -> IF v.kind = "json" THEN "alerts" ELSE "tab3"
      [] pos = "alerts" ->
            IF v.kind = "json" /\ v.body.shape = "geojson" /\ ~AllOk(FirstN(v.body.items, 5))
            THEN "raise" ELSE "tab3"
      [] pos = "tab3" -> "tab4"
      [] pos = "tab4" -> IF event = "pdf" THEN "pdf_eq" ELSE "end"
      [] pos = "pdf_eq" -> IF process_earthquake_data_raises(v) THEN "raise" ELSE "pdf_weather"
      [] pos = "pdf_weather" -> "pdf_space"
      [] pos = "pdf_space" -> "pdf_alerts"
      [] OTHER -> "end"

\* The script calls the fetch function of its position.
X_main_Fetch ==
    /\ x_pc \in X_FetchPositions
    /\ pc = "idle"
    /\ LET f == X_main_fn(x_pc)
           a == X_main_arg(f, x_session.location)
       IN  /\ Begin(f, a, X_main_call(f, a))
           /\ x_run' = [x_run EXCEPT !.fetched = Append(@, f)]
    /\ UNCHANGED <<x_widgets, x_session, x_pc>>

\* The function has returned; the script renders and moves on.
X_main_Render ==
    /\ x_pc \in X_FetchPositions
    /\ fn = X_main_fn(x_pc)
    /\ pc \in {"returned", "raised"}
    /\ Resume
    /\ LET nxt == IF pc = "raised" THEN "raise" ELSE X_main_render(x_pc, ret, x_run.event)
       IN  /\ x_pc' = IF nxt \in {"raise", "end"} THEN "idle" ELSE nxt
           /\ x_run' = CASE nxt = "raise" -> [x_run EXCEPT !.ended = "raised"]
                         [] nxt = "end" -> [x_run EXCEPT !.ended = "end"]
                         [] OTHER -> x_run
    /\ UNCHANGED <<x_widgets, x_session>>

NextXMain ==
    \/ X_main_Start /\ UNCHANGED otherThanXMain
    \/ X_main_Geocoded /\ UNCHANGED otherThanXMain
    \/ X_main_Fetch /\ UNCHANGED otherThanXMain
    \/ X_main_Render /\ UNCHANGED otherThanXMain
    \/ X_geocode_location_Resp /\ UNCHANGED xVars /\ UNCHANGED otherThanXMain
    \/ X_fetch_earthquakes_Resp /\ UNCHANGED xVars /\ UNCHANGED otherThanXMain
    \/ X_fetch_weather_forecast_Resp /\ UNCHANGED xVars /\ UNCHANGED otherThanXMain
    \/ X_fetch_weather_alerts_Resp /\ UNCHANGED xVars /\ UNCHANGED otherThanXMain
    \/ X_fetch_space_weather_Resp /\ UNCHANGED xVars /\ UNCHANGED otherThanXMain
    \/ X_fetch_hurricanes_Resp /\ UNCHANGED xVars /\ UNCHANGED otherThanXMain

-----------------------------------------------------------------------------
(* main of src/MegaReport/Xreport.py, run after run of one session.  The    *)
(* script computes lat, lon and location_name anew in every run, copies     *)
(* them into st.session_state, calls the four fetch functions and renders   *)
(* the tabs and, when its button was clicked, the PDF.  The fetch functions *)
(* are invoked as modelled above; st.cache_data may answer a call with the  *)
(* value an earlier call with the same arguments returned, which is one of  *)
(* the values modelled here.                                                *)

M_Methods == {"Coordinates", "City Name"}
M_CityTexts == Cities \cup {"San Francisco"}

\* one user event starts one run; "none" is the first load
M_Events == {"none", "method", "coords", "city", "country", "geocode", "pdf"}

M_Widgets == [input_method : M_Methods, at : Coords, city : M_CityTexts, country : Countries]

M_NoRun ==
    [event |-> "none",
     geocode |-> NoVal,          \* what geocode_location returned
     timed_out |-> FALSE,        \* it did after catching GeocoderTimedOut
     message |-> "none",         \* the message under the Geocode button
     lat |-> 0, lon |-> 0, location_name |-> "",
     fetched |-> <<>>,           \* the calls of the run: [fn, arg, requests]
     grid |-> "none",            \* get_weather_grid: "ok" or "failed"
     forecast_url |-> "",
     forecast |-> <<>>,          \* the rows of forecast_df
     weather_notice |-> FALSE,   \* 'Weather data unavailable' in the Weather tab
     pdf |-> "none",             \* the location_name the PDF reports, or "failed"
     ended |-> "none"]

IdleMMain ==
    /\ m_widgets = [input_method |-> "Coordinates", at |-> SanFrancisco,
                    city |-> "San Francisco", country |-> "US"]
    /\ m_session = [lat |-> 0, lon |-> 0, location_name |-> ""]
    /\ m_pc = "idle"
    /\ m_run = M_NoRun
    /\ m_found = "none"

M_place(la, lo, name) == [lat |-> la, lon |-> lo, location_name |-> name]

\* A plausible slip: a run without a click takes up what the session holds.
M_main_no_click_session(session) ==
    IF session.location_name = ""
    THEN M_place(SanFrancisco.lat, SanFrancisco.lon, "San Francisco")
    ELSE session

\* 'City Name' mode, Geocode not clicked in this run
M_main_no_click(session) == M_place(SanFrancisco.lat, SanFrancisco.lon, "San Francisco")

\* `if lat:` is false for None and for 0.0
M_truthy(v) == v.kind = "tuple" /\ v.lat # 0

\* 'City Name' mode, after geocode_location(city) has returned v
M_main_geocode_click(v, city) ==
    IF M_truthy(v)
    THEN [place |-> M_place(v.lat, v.lon, city), message |-> "Found"]
    ELSE [place |-> M_place(SanFrancisco.lat, SanFrancisco.lon, "San Francisco"),
          message |-> "City not found."]

\* The widget values w a run starts with, given the event e that started it.
M_main_event(e, w) ==
    CASE e = "method" ->
            /\ w.input_method # m_widgets.input_method
            /\ w = [m_widgets EXCEPT !.input_method = w.input_method]
      [] e = "coords" ->
            /\ m_widgets.input_method = "Coordinates"
            /\ w.at # m_widgets.at
            /\ w = [m_widgets EXCEPT !.at = w.at]
      [] e = "city" ->
            /\ m_widgets.input_method = "City Name"
            /\ w.city # m_widgets.city
            /\ w = [m_widgets EXCEPT !.city = w.city]
      [] e = "country" ->
            /\ w.country # m_widgets.country
            /\ w = [m_widgets EXCEPT !.country = w.country]
      [] e = "geocode" -> m_widgets.input_method = "City Name" /\ w = m_widgets
      [] e = "pdf" -> m_run.ended = "end" /\ w = m_widgets
      [] OTHER -> w = m_widgets

\* the run has its location: st.session_state.update(...) and on to the fetches
M_main_located(run, place) ==
    /\ m_session' = place
    /\ m_run' = [run EXCEPT !.lat = place.lat, !.lon = place.lon,
                            !.location_name = place.location_name]
    /\ m_pc' = "fetch_earthquakes"

\* A run starts and goes as far as its first call.
M_main_Start ==
    /\ m_pc = "idle"
    /\ pc = "idle"
    /\ \E e \in M_Events, w \in M_Widgets :
        /\ M_main_event(e, w)
        /\ m_widgets' = w
        /\ LET run == [M_NoRun EXCEPT !.event = e, !.ended = "running"]
           IN  IF w.input_method = "City Name" /\ e = "geocode"
               THEN /\ Begin("M.geocode_location", City(w.city), M_geocode_location_call(City(w.city)))
                    /\ m_pc' = "geocode"
                    /\ m_run' = run
                    /\ UNCHANGED <<m_session, m_found>>
               ELSE /\ IF w.input_method = "Coordinates"
                       THEN M_main_located(run, M_place(w.at.lat, w.at.lon, "Custom Location"))
                       ELSE M_main_located(run, M_main_no_click(m_session))
                    /\ UNCHANGED <<callVars, m_found>>

\* geocode_location has returned into the sidebar, or its exception ends the run.
M_main_Geocoded ==
    /\ m_pc = "geocode"
    /\ fn = "M.geocode_location"
    /\ pc \in {"returned", "raised"}
    /\ Resume
    /\ IF pc = "raised"
       THEN /\ m_run' = [m_run EXCEPT !.ended = "raised"]
            /\ m_pc' = "idle"
            /\ UNCHANGED <<m_session, m_found>>
       ELSE LET g == M_main_geocode_click(ret, m_widgets.city)
                run == [m_run EXCEPT !.geocode = ret, !.message = g.message,
                                     !.timed_out = (caught = "GeocoderTimedOut")]
            IN  /\ M_main_located(run, g.place)
                /\ m_found' = IF g.message = "Found" THEN m_widgets.city ELSE m_found
    /\ UNCHANGED m_widgets

M_FetchPositions == {"fetch_earthquakes", "get_weather_grid", "fetch_forecast", "fetch_alerts"}

M_main_fn(pos) ==
    CASE pos = "fetch_earthquakes" -> "M.fetch_earthquakes"
      [] pos = "get_weather_grid" -> "M.get_weather_grid"
      [] pos = "fetch_forecast" -> "M.fetch_forecast"
      [] OTHER -> "M.fetch_alerts"

\* A plausible slip: the fetches take the number inputs of the sidebar.
M_main_arg_widgets(pos, run, w) ==
    CASE pos = "fetch_forecast" -> Url(run.forecast_url)
      [] pos = "fetch_alerts" -> AtIn(w.at, w.country)
      [] OTHER -> At(w.at)

\* the arguments main passes at each position
M_main_arg(pos, run, w) ==
    CASE pos = "fetch_forecast" -> Url(run.forecast_url)
      [] pos = "fetch_alerts" -> AtIn(run, w.country)
      [] OTHER -> At(run)

M_main_call(pos, a) ==
    CASE pos = "fetch_earthquakes" -> M_fetch_earthquakes_call(a)
      [] pos = "get_weather_grid" -> M_get_weather_grid_call(a)
      [] pos = "fetch_forecast" -> M_fetch_forecast_call(a)
      [] OTHER -> M_fetch_alerts_call(a)

\* The script calls the fetch function of its position.
M_main_Fetch ==
    /\ m_pc \in M_FetchPositions
    /\ pc = "idle"
    /\ LET a == M_main_arg(m_pc, m_run, m_widgets)
       IN  Begin(M_main_fn(m_pc), a, M_main_call(m_pc, a))
    /\ UNCHANGED <<m_widgets, m_session, m_pc, m_run, m_found>>

\* the endpoints an invocation has sent requests to
Endpoints(log) == [i \in 1..Len(log) |-> log[i].endpoint]

\* The function has returned and the script goes on; after fetch_alerts it
\* renders the tabs and, when the PDF button was clicked, the PDF, whose
\* generation may fail (the failure is caught and shown).
M_main_Continue ==
    /\ m_pc \in M_FetchPositions
    /\ fn = M_main_fn(m_pc)
    /\ pc \in {"returned", "raised"}
    /\ Resume
    /\ LET run == [m_run EXCEPT !.fetched =
                        Append(@, [fn |-> fn, arg |-> arg, requests |-> Endpoints(reqlog)])]
       IN  CASE pc = "raised" ->
                    /\ m_run' = [run EXCEPT !.ended = "raised"]
                    /\ m_pc' = "idle"
             [] pc = "returned" /\ m_pc = "fetch_earthquakes" ->
                    /\ m_run' = run
                    /\ m_pc' = "get_weather_grid"
             [] pc = "returned" /\ m_pc = "get_weather_grid" ->
                    /\ m_run' = [run EXCEPT !.grid = IF ret = NoneTuple THEN "failed" ELSE "ok",
                                            !.forecast_url = ret.text]
                    /\ m_pc' = "fetch_forecast"
             [] pc = "returned" /\ m_pc = "fetch_forecast" ->
                    /\ m_run' = [run EXCEPT !.forecast = ret.rows]
                    /\ m_pc' = "fetch_alerts"
             [] OTHER ->
                    /\ \E ok \in BOOLEAN :
                         m_run' = [run EXCEPT !.weather_notice = (run.forecast = <<>>),
                                              !.pdf = CASE run.event # "pdf" -> "none"
                                                        [] ok -> run.location_name
                                                        [] OTHER -> "failed",
                                              !.ended = "end"]
                    /\ m_pc' = "idle"
    /\ UNCHANGED <<m_widgets, m_session, m_found>>

NextMMain ==
    \/ M_main_Start /\ UNCHANGED otherThanMMain
    \/ M_main_Geocoded /\ UNCHANGED otherThanMMain
    \/ M_main_Fetch /\ UNCHANGED otherThanMMain
    \/ M_main_Continue /\ UNCHANGED otherThanMMain
    \/ M_geocode_location_Resp /\ UNCHANGED mVars /\ UNCHANGED otherThanMMain
    \/ M_fetch_earthquakes_Resp /\ UNCHANGED mVars /\ UNCHANGED otherThanMMain
    \/ M_get_weather_grid_Resp /\ UNCHANGED mVars /\ UNCHANGED otherThanMMain
    \/ M_fetch_forecast_Resp /\ UNCHANGED mVars /\ UNCHANGED otherThanMMain
    \/ M_fetch_alerts_Resp /\ UNCHANGED mVars /\ UNCHANGED otherThanMMain

-----------------------------------------------------------------------------
(* main and show_dashboard of src/quakes.py, run after run of one session.  *)
(* Data is loaded only in the run that the 'Load Comprehensive Data' button *)
(* starts; every run then shows the page selected in the sidebar.           *)

Q_Pages == {"Main Dashboard", "Data Analytics", "Full Datasets"}
Q_Radii == {500, 1000}

\* texts of the city input: the default, a padded key in capitals, no key
Q_CityTexts ==
    {<<"L", "o", "n", "d", "o", "n">>,
     <<" ", "T", "O", "K", "Y", "O">>,
     <<"r", "o", "m", "e">>}

Q_Events == {"none", "city", "radius", "page", "load"}

Q_Widgets == [city_name : Q_CityTexts, radius_km : Q_Radii, page : Q_Pages]

MaxLoads == 2

\* the keys main writes into st.session_state
Q_Keys ==
    {"city_name", "lat", "lon", "radius_km", "earthquake_data", "weather_data",
     "severe_alerts", "data_loaded"}

\* st.session_state: the keys present, their values, and for each key the
\* number of the Load click that wrote it (0: never written)
Q_NoSession ==
    [keys |-> {}, stamp |-> [k \in Q_Keys |-> 0],
     data_loaded |-> FALSE, city_name |-> <<>>, lat |-> 0, lon |-> 0, radius_km |-> 0,
     earthquake_data |-> NoVal, weather_data |-> NoVal, severe_alerts |-> NoVal]

\* get_weather_data: six simulated records (nothing in its try block raises
\* for the numbers get_city_coordinates returns, so get_fallback_weather is
\* never reached)
get_weather_data == {List([i \in 1..6 |-> i])}

\* get_weather_alerts: two alerts, and a seasonal one in summer and in winter
get_weather_alerts == {List([i \in 1..2 |-> i]), List([i \in 1..3 |-> i])}

\* A plausible slip: the city is stored only when the session has none yet.
Q_main_update_setdefault(session, w, c, quakes, weather, alerts, n) ==
    [keys |-> Q_Keys,
     stamp |-> [k \in Q_Keys |->
                  IF k = "city_name" /\ k \in session.keys THEN session.stamp[k] ELSE n],
     data_loaded |-> TRUE,
     city_name |-> IF "city_name" \in session.keys THEN session.city_name ELSE w.city_name,
     lat |-> c[1], lon |-> c[2], radius_km |-> w.radius_km,
     earthquake_data |-> quakes, weather_data |-> weather, severe_alerts |-> alerts]

\* st.session_state.update({...}) of the Load click number n: c is the pair
\* get_city_coordinates returned for the city typed
Q_main_update(session, w, c, quakes, weather, alerts, n) ==
    [keys |-> session.keys \cup Q_Keys,
     stamp |-> [k \in Q_Keys |-> n],
     data_loaded |-> TRUE,
     city_name |-> w.city_name,
     lat |-> c[1], lon |-> c[2], radius_km |-> w.radius_km,
     earthquake_data |-> quakes, weather_data |-> weather, severe_alerts |-> alerts]

\* answer: what the request of the run's load was answered with
Q_NoRun ==
    [event |-> "none", answer |-> NoResponse, shown |-> "none", quakes |-> "none",
     ended |-> "none"]

IdleQMain ==
    /\ q_widgets = [city_name |-> <<"L", "o", "n", "d", "o", "n">>, radius_km |-> 500,
                    page |-> "Main Dashboard"]
    /\ q_session = Q_NoSession
    /\ q_pc = "idle"
    /\ q_run = Q_NoRun
    /\ q_loads = 0

\* show_dashboard, 'Recent Seismic Activity': `if earthquake_data:` shows the
\* table, the else branch the 'No earthquake data found' notice
show_dashboard_quakes(earthquake_data) ==
    IF earthquake_data.rows # <<>> THEN "table" ELSE "No earthquake data found in the selected area"

\* the main content of a run
Q_main_content(session, w, run) ==
    IF "data_loaded" \notin session.keys
    THEN [run EXCEPT !.shown = "welcome", !.ended = "end"]
    ELSE IF w.page = "Main Dashboard"
    THEN [run EXCEPT !.shown = "dashboard",
                     !.quakes = show_dashboard_quakes(session.earthquake_data),
                     !.ended = "end"]
    ELSE [run EXCEPT !.shown = w.page, !.ended = "end"]

\* The widget values w a run starts with, given the event e that started it.
Q_main_event(e, w) ==
    CASE e = "city" ->
            w.city_name # q_widgets.city_name /\ w = [q_widgets EXCEPT !.city_name = w.city_name]
      [] e = "radius" ->
            w.radius_km # q_widgets.radius_km /\ w = [q_widgets EXCEPT !.radius_km = w.radius_km]
      [] e = "page" ->
            w.page # q_widgets.page /\ w = [q_widgets EXCEPT !.page = w.page]
      [] OTHER -> w = q_widgets

\* A run starts; the Load button calls get_city_coordinates and then
\* get_earthquake_data, any other event goes straight to the page.
Q_main_Start ==
    /\ q_pc = "idle"
    /\ pc = "idle"
    /\ \E e \in Q_Events, w \in Q_Widgets :
        /\ Q_main_event(e, w)
        /\ e = "load" => q_loads < MaxLoads
        /\ q_widgets' = w
        /\ q_loads' = IF e = "load" THEN q_loads + 1 ELSE q_loads
        /\ LET run == [Q_NoRun EXCEPT !.event = e, !.ended = "running"]
               c == get_city_coordinates(w.city_name)
               a == At([lat |-> c[1], lon |-> c[2]])
           IN  IF e = "load"
               THEN /\ Begin("Q.get_earthquake_data", a, Q_get_earthquake_data_call(a))
                    /\ q_pc' = "load"
                    /\ q_run' = run
                    /\ UNCHANGED q_session
               ELSE /\ q_run' = Q_main_content(q_session, w, run)
                    /\ UNCHANGED <<q_session, q_pc, callVars>>

\* get_earthquake_data has returned: st.session_state.update(...), then the page.
Q_main_Loaded ==
    /\ q_pc = "load"
    /\ fn = "Q.get_earthquake_data"
    /\ pc \in {"returned", "raised"}
    /\ Resume
    /\ q_pc' = "idle"
    /\ IF pc = "raised"
       THEN /\ q_run' = [q_run EXCEPT !.answer = resp, !.ended = "raised"]
            /\ UNCHANGED q_session
       ELSE \E weather \in get_weather_data, alerts \in get_weather_alerts :
               LET s2 == Q_main_update(q_session, q_widgets, <<arg.lat, arg.lon>>, ret,
                                       weather, alerts, q_loads)
               IN  /\ q_session' = s2
                   /\ q_run' = Q_main_content(s2, q_widgets, [q_run EXCEPT !.answer = resp])
    /\ UNCHANGED <<q_widgets, q_loads>>

NextQMain ==
    \/ Q_main_Start /\ UNCHANGED otherThanQMain
    \/ Q_main_Loaded /\ UNCHANGED otherThanQMain
    \/ Q_get_earthquake_data_Resp /\ UNCHANGED qVars /\ UNCHANGED otherThanQMain

-----------------------------------------------------------------------------
(* The 'Quakes by Distance' pie: main (Executive Summary) and                *)
(* generate_pdf_html of src/MegaReport/Xreport.py.  Distances are in km.     *)

MaxQuakes == 3

\* distances on both sides of every bin edge, and beyond the last one
PieDistances == {0, 5, 50, 300, 700, 1200}

\* labels = ["0-10km", "11-100km", "101-500km", ">500km"], by position
PieLabels == 1..4

\* pd.cut(d, bins=[0, 10, 100, 500, 1000], labels=labels): the intervals are
\* open on the left and closed on the right; include_lowest closes the first
\* one on the left.  0 stands for NaN (no bin).
pd_cut(d, include_lowest) ==
    CASE d = 0 /\ include_lowest -> 1
      [] 0 < d /\ d <= 10 -> 1
      [] 10 < d /\ d <= 100 -> 2
      [] 100 < d /\ d <= 500 -> 3
      [] 500 < d /\ d <= 1000 -> 4
      [] OTHER -> 0

\* the 'bin' column
pie_bin_column(ds, include_lowest) == [i \in 1..Len(ds) |-> pd_cut(ds[i], include_lowest)]

\* Series.value_counts() of a categorical column: one entry per category,
\* NaN dropped, sorted by count, largest first.  Entries with equal counts
\* may come in any order; the counts by position are the same in each.
value_counts(col) ==
    LET count(k) == Cardinality({i \in 1..Len(col) : col[i] = k})
        order == CHOOSE p \in [PieLabels -> PieLabels] :
                    /\ \A i, j \in PieLabels : i # j => p[i] # p[j]
                    /\ \A i, j \in PieLabels : i < j => count(p[i]) >= count(p[j])
    IN  [k \in PieLabels |-> [label |-> order[k], count |-> count(order[k])]]

\* .reindex(labels, fill_value=0): the count of each label, in label order
reindex(vc) ==
    [k \in PieLabels |->
        IF \E i \in DOMAIN vc : vc[i].label = k
        THEN vc[CHOOSE i \in DOMAIN vc : vc[i].label = k].count
        ELSE 0]

\* px.pie(values=value_counts(), names=labels): the values are taken by
\* position, the index of the series is not looked at
main_pie(ds) ==
    LET vc == value_counts(pie_bin_column(ds, FALSE))
    IN  [k \in PieLabels |-> vc[k].count]

\* px.pie(values=counts.values, names=counts.index) after the reindex
generate_pdf_html_pie(ds) == reindex(value_counts(pie_bin_column(ds, TRUE)))

DistanceSeqs == UNION {[1..n -> PieDistances] : n \in 1..MaxQuakes}

InitPie ==
    /\ pie_distances \in DistanceSeqs
    /\ pie_main = <<>>
    /\ pie_pdf = <<>>

IdlePie ==
    /\ pie_distances = <<5>>
    /\ pie_main = <<>>
    /\ pie_pdf = <<>>

\* One run with a non-empty quakes_df in which the PDF button was clicked.
DrawPies ==
    /\ pie_main = <<>>
    /\ pie_main' = main_pie(pie_distances)
    /\ pie_pdf' = generate_pdf_html_pie(pie_distances)
    /\ UNCHANGED pie_distances
    /\ UNCHANGED otherThanPie

-----------------------------------------------------------------------------
(* The Space Weather tab of src/Xreport.py: fetch_space_weather and the     *)
(* storm level shown for its Kp index.  The index is the text of the second *)
(* column of the feed's last row; float() turns it into a number, kept here *)
(* in hundredths.                                                           *)

NA == <<"N", "/", "A">>

\* texts the feed's last row can hold: Kp values around the two limits, with
\* and without decimals, and the column's heading (a feed of the header only)
KpTexts ==
    {<<"0", ".", "0", "0">>, <<"3", ".", "6", "7">>, <<"4">>, <<"4", ".", "0", "0">>,
     <<"4", ".", "3", "3">>, <<"4", ".", "6", "7">>, <<"5">>, <<"5", ".", "0", "0">>,
     <<"5", ".", "3", "3">>, <<"9", ".", "0">>, <<"K", "p">>}

Digits == <<"0", "1", "2", "3", "4", "5", "6", "7", "8", "9">>

IsDigit(c) == \E d \in DOMAIN Digits : Digits[d] = c

DigitValue(c) == (CHOOSE d \in DOMAIN Digits : Digits[d] = c) - 1

\* the number a sequence of digits writes
RECURSIVE DigitsValue(_)
DigitsValue(s) ==
    IF s = <<>> THEN 0
    ELSE 10 * DigitsValue(SubSeq(s, 1, Len(s) - 1)) + DigitValue(s[Len(s)])

\* float(text) for a text of digits with at most one point and at most two
\* decimals, in hundredths; any other text raises ValueError
float(s) ==
    LET dots == {i \in DOMAIN s : s[i] = "."}
        dot == IF dots = {} THEN Len(s) + 1 ELSE CHOOSE i \in dots : TRUE
        whole == SubSeq(s, 1, dot - 1)
        frac == SubSeq(s, dot + 1, Len(s))
        padded == IF Len(frac) = 0 THEN <<"0", "0">>
                  ELSE IF Len(frac) = 1 THEN frac \o <<"0">> ELSE frac
    IN  IF /\ Cardinality(dots) <= 1
           /\ Len(whole) + Len(frac) > 0
           /\ Len(frac) <= 2
           /\ \A i \in DOMAIN whole : IsDigit(whole[i])
           /\ \A i \in DOMAIN frac : IsDigit(frac[i])
        THEN [ok |-> TRUE, val |-> 100 * DigitsValue(whole) + DigitsValue(padded)]
        ELSE [ok |-> FALSE, val |-> 0]

\* A plausible slip: the storm limit is exclusive.
storm_level_strict(v) ==
    IF v = NA THEN "none"
    ELSE IF ~float(v).ok THEN "ValueError"
    ELSE IF float(v).val > 500 THEN "Geomagnetic Storm Active"
    ELSE IF float(v).val >= 400 THEN "Unsettled Geomagnetic Conditions"
    ELSE "Quiet Geomagnetic Conditions"

\* col2 of the tab: what is shown for kp_value = v
storm_level(v) ==
    IF v = NA THEN "none"
    ELSE IF ~float(v).ok THEN "ValueError"
    ELSE IF float(v).val >= 500 THEN "Geomagnetic Storm Active"
    ELSE IF float(v).val >= 400 THEN "Unsettled Geomagnetic Conditions"
    ELSE "Quiet Geomagnetic Conditions"

IdleKp ==
    /\ kp_value = <<>>
    /\ kp_level = "none"
    /\ kp_answer = NoResponse

\* the values space_data['kp_index'] can have for the reading v returned
kp_index(v) == IF v.text = "N/A" THEN {NA} ELSE KpTexts

\* fetch_space_weather has returned; `if space_data:` and the three columns.
SpaceWeatherTab ==
    /\ fn = "X.fetch_space_weather"
    /\ pc \in {"returned", "raised"}
    /\ Resume
    /\ kp_answer' = resp
    /\ IF pc = "returned" /\ ret.kind = "dict"
       THEN \E v \in kp_index(ret) :
                /\ kp_value' = v
                /\ kp_level' = storm_level(v)
       ELSE /\ kp_value' = <<>>
            /\ kp_level' = IF pc = "raised" THEN "raised" ELSE "none"

-----------------------------------------------------------------------------
(* generate_pdf_html of src/MegaReport/Xreport.py: the HTML document built  *)
(* from the three tables.  A table is the sequence of its row numbers; the  *)
(* document is the sequence of the parts appended to `html`.                *)

MaxRows == 11
MaxAlerts == 2
MaxPeriods == 2

\* what a renderer (folium's _to_png, kaleido's write_image) does when called
Renderers == {"png", "raises"}

Table(n) == [i \in 1..n |-> i]

PdfInputs ==
    [quakes_df : {Table(n) : n \in 0..MaxRows},
     forecast_df : {Table(n) : n \in 0..MaxPeriods},
     alerts_df : {Table(n) : n \in 0..MaxAlerts},
     folium : Renderers,
     kaleido : Renderers]

\* DataFrame.empty
empty(df) == Len(df) = 0

\* DataFrame.head(n)
head(df, n) == SubSeq(df, 1, IF Len(df) < n THEN Len(df) ELSE n)

\* one part of the document: its tag, the number it prints, the rows it lists
Part(tag, n, rows) == [tag |-> tag, n |-> n, rows |-> rows]

\* A plausible slip: the map is drawn only when there are earthquakes.
map_img_quakes_only(in) ==
    IF ~empty(in.quakes_df) THEN in.folium ELSE "None"

\* folium_to_png(create_folium_map(...)): called iff a table of events is not empty
map_img(in) ==
    IF ~empty(in.quakes_df) \/ ~empty(in.alerts_df) THEN in.folium ELSE "None"

\* fig_to_base64_png(px.pie(...)): called iff there are earthquakes
pie_img(in) ==
    IF ~empty(in.quakes_df) THEN in.kaleido ELSE "None"

\* the document, in the order of the appends
generate_pdf_html_parts(in) ==
    <<Part("Cover Page", 0, <<>>),
      Part("Executive Summary", 0, <<>>),
      Part("Total Earthquakes", Len(in.quakes_df), <<>>),
      Part("Active Alerts", Len(in.alerts_df), <<>>)>>
    \o (IF pie_img(in) # "None" THEN <<Part("pie_img", 0, <<>>)>> ELSE <<>>)
    \o (IF map_img(in) # "None" THEN <<Part("map_img", 0, <<>>)>> ELSE <<>>)
    \o <<Part("Earthquakes", 0, <<>>)>>
    \o (IF ~empty(in.quakes_df)
        THEN <<Part("quakes table", 0, head(in.quakes_df, 10))>> ELSE <<>>)
    \o <<Part("Weather Forecast", 0, <<>>)>>
    \o (IF ~empty(in.forecast_df)
        THEN <<Part("forecast table", 0, in.forecast_df)>> ELSE <<>>)
    \o <<Part("Alerts", 0, <<>>)>>
    \o (IF ~empty(in.alerts_df)
        THEN <<Part("alerts table", 0, in.alerts_df)>>
        ELSE <<Part("No active alerts.", 0, <<>>)>>)

\* generate_pdf_html: the images are made first, and a renderer that raises
\* leaves the function before any of the document is built
generate_pdf_html(in) ==
    IF map_img(in) = "raises" \/ pie_img(in) = "raises"
    THEN [outcome |-> "raised", html |-> <<>>]
    ELSE [outcome |-> "returned", html |-> generate_pdf_html_parts(in)]

NoPdf == [outcome |-> "none", html |-> <<>>]

InitPdf ==
    /\ pdf_in \in PdfInputs
    /\ pdf_out = NoPdf

IdlePdf ==
    /\ pdf_in = [quakes_df |-> <<>>, forecast_df |-> <<>>, alerts_df |-> <<>>,
                 folium |-> "png", kaleido |-> "png"]
    /\ pdf_out = NoPdf

GeneratePdfHtml ==
    /\ pdf_out = NoPdf
    /\ pdf_out' = generate_pdf_html(pdf_in)
    /\ UNCHANGED pdf_in

-----------------------------------------------------------------------------
(* Specifications                                                           *)

IdleApps == IdleXMain /\ IdleMMain /\ IdleQMain /\ IdlePie /\ IdlePdf /\ IdleKp

Init == IdleRisk /\ IdleCall /\ IdleCache /\ IdleCity /\ IdleDist /\ IdleProb /\ IdleApps

\* The fetch and geocode functions of the three apps, one invocation at a time.
Spec == Init /\ [][Next]_vars

\* The functions of src/MegaReport/Xreport.py behind their cache decorators.
SpecCache == Init /\ [][NextCache]_vars

\* classify_earthquake_risk applied to every input within the bounds.
NextRisk == ClassifyRisk

RiskInit == InitRisk /\ IdleCall /\ IdleCache /\ IdleCity /\ IdleDist /\ IdleProb /\ IdleApps

SpecRisk == RiskInit /\ [][NextRisk]_vars

\* get_city_coordinates applied to every typed text.
NextCity == GetCityCoordinates

CityInit == IdleRisk /\ IdleCall /\ IdleCache /\ InitCity /\ IdleDist /\ IdleProb /\ IdleApps

SpecCity == CityInit /\ [][NextCity]_vars

\* haversine applied to every pair of grid points.
NextDist == Haversine

DistInit == IdleRisk /\ IdleCall /\ IdleCache /\ IdleCity /\ InitDist /\ IdleProb /\ IdleApps

SpecDist == DistInit /\ [][NextDist]_vars

\* calculate_aftershock_probability applied to every sample.
NextProb == AftershockProbability

ProbInit == IdleRisk /\ IdleCall /\ IdleCache /\ IdleCity /\ IdleDist /\ InitProb /\ IdleApps

SpecProb == ProbInit /\ [][NextProb]_vars

\* main of src/Xreport.py, run after run of one session.
SpecXMain == Init /\ [][NextXMain]_vars

\* main of src/MegaReport/Xreport.py, run after run of one session.
SpecMMain == Init /\ [][NextMMain]_vars

\* main of src/quakes.py, run after run of one session.
SpecQMain == Init /\ [][NextQMain]_vars

\* The two pies drawn from every small set of distances.
NextPie == DrawPies

PieInit ==
    IdleRisk /\ IdleCall /\ IdleCache /\ IdleCity /\ IdleDist /\ IdleProb /\ IdleXMain /\ IdleMMain /\ IdleQMain /\ InitPie /\ IdlePdf /\ IdleKp

SpecPie == PieInit /\ [][NextPie]_vars

\* generate_pdf_html called once on each combination of tables.
NextPdf == GeneratePdfHtml /\ UNCHANGED otherThanPdf

PdfInit ==
    IdleRisk /\ IdleCall /\ IdleCache /\ IdleCity /\ IdleDist /\ IdleProb /\ IdleXMain /\ IdleMMain /\ IdleQMain /\ IdlePie /\ InitPdf /\ IdleKp

SpecPdf == PdfInit /\ [][NextPdf]_vars

\* The Space Weather tab, run after run.
NextKp ==
    \/ X_fetch_space_weather_Call /\ UNCHANGED kpVars /\ UNCHANGED otherThanKp
    \/ X_fetch_space_weather_Resp /\ UNCHANGED kpVars /\ UNCHANGED otherThanKp
    \/ SpaceWeatherTab /\ UNCHANGED otherThanKp

SpecKp == Init /\ [][NextKp]_vars

-----------------------------------------------------------------------------
(* Properties                                                               *)

RiskRank(l) ==
    CASE l = "LOW" -> 0
      [] l = "MINOR" -> 1
      [] l = "MODERATE" -> 2
      [] l = "SEVERE" -> 3
      [] l = "CRITICAL" -> 4
      [] l = "CATASTROPHIC" -> 5

\* C1: for a fixed distance and tsunami flag, the label returned for a
\* magnitude is never higher than the label of any larger magnitude.
C1_RiskMonotonicInMagnitude ==
    risk # "unset" =>
        \A m2 \in Magnitudes :
            magnitude <= m2 =>
                RiskRank(risk) <= RiskRank(classify_earthquake_risk(m2, distance_km, tsunami))

\* A near quake below 5.0 has been classified MINOR (a label that larger
\* magnitudes must not fall below).
C1_Witness == risk = "MINOR" /\ magnitude = 45 /\ distance_km = 50

\* The threshold ladder as the claim states it.
RiskReference(m, d, t) ==
    IF m >= 80 \/ (t /\ m >= 70) THEN "CATASTROPHIC"
    ELSE IF 70 <= m /\ m < 80 /\ ~t THEN "CRITICAL"
    ELSE IF 60 <= m /\ m < 70 THEN "SEVERE"
    ELSE IF 50 <= m /\ m < 60 /\ d <= 100 THEN "MODERATE"
    ELSE IF 40 <= m /\ m < 50 /\ d <= 50 THEN "MINOR"
    ELSE "LOW"

\* C2: the function is total and returns exactly the label of the reference
\* ladder, which depends on its three arguments only.
C2_RiskEqualsReference ==
    risk # "unset" =>
        /\ risk \in RiskLabels
        /\ risk = RiskReference(magnitude, distance_km, tsunami)

\* A magnitude 5.x quake exactly 100 km away has been classified MODERATE.
C2_Witness == risk = "MODERATE" /\ distance_km = 100 /\ ~tsunami

XFetchFns ==
    {"X.fetch_earthquakes", "X.fetch_weather_forecast", "X.fetch_weather_alerts",
     "X.fetch_space_weather", "X.fetch_hurricanes"}

\* C3: no fetch function of src/Xreport.py lets an exception out, and when
\* the HTTP call or the parsing of its body raised it returns None.
C3_XFetchReturnsNoneOnError ==
    fn \in XFetchFns =>
        /\ pc # "raised"
        /\ (pc = "returned" /\ (caught # "none" \/ resp.err # "none")) => ret = None

\* fetch_space_weather has returned after the indexing of a malformed row raised.
C3_Witness ==
    /\ fn = "X.fetch_space_weather"
    /\ pc = "returned"
    /\ caught = "IndexError"
    /\ ret = None

\* The response gives the function nothing to build its result from.
FailedResponse ==
    \/ resp.err # "none"
    \/ resp.status >= 400
    \/ resp.body.shape \in {"unparsable", "notdict", "nokey", "nofeatures"}
    \/ ~AllOk(FirstN(resp.body.items, 14))

\* C4: the four fetch functions of src/MegaReport/Xreport.py never let an
\* exception out; on any failure of the request or of the response's shape
\* the three table functions return the empty table and get_weather_grid
\* returns (None, None).
C4_MFetchEmptyOnFailure ==
    /\ fn \in {"M.fetch_earthquakes", "M.fetch_forecast", "M.fetch_alerts"} =>
        /\ pc # "raised"
        /\ (pc = "returned" /\ FailedResponse) => ret = DataFrame(<<>>)
    /\ fn = "M.get_weather_grid" =>
        /\ pc # "raised"
        /\ (pc = "returned" /\ FailedResponse) => ret = NoneTuple

\* fetch_alerts has returned from a response whose second feature lacks a key.
C4_Witness ==
    /\ fn = "M.fetch_alerts"
    /\ pc = "returned"
    /\ resp.body.items = <<TRUE, FALSE>>
    /\ caught = "KeyError"

\* C5: geocode_location never lets an exception reach its caller, in either
\* report app.
C5_GeocodeNeverRaises ==
    fn \in {"X.geocode_location", "M.geocode_location"} => pc # "raised"

FetchFns ==
    XFetchFns \cup
        {"M.fetch_earthquakes", "M.get_weather_grid", "M.fetch_forecast", "M.fetch_alerts",
         "Q.get_earthquake_data"}

FailedRequest(q) == q.err # "none" \/ (q.status # 0 /\ q.status # 200)

\* C6: an invocation of a fetch function sends at most one request to each
\* endpoint, and a request that failed is the last one: the function has
\* returned as soon as the failure is answered.
C6_NoRetry ==
    fn \in FetchFns =>
        /\ \A i, j \in 1..Len(reqlog) : i # j => reqlog[i].endpoint # reqlog[j].endpoint
        /\ \A i \in 1..Len(reqlog) :
              FailedRequest(reqlog[i]) => i = Len(reqlog) /\ pc = "returned"

\* get_earthquake_data has returned its fallback after its one request timed out.
C6_Witness ==
    /\ fn = "Q.get_earthquake_data"
    /\ pc = "returned"
    /\ Len(reqlog) = 1
    /\ reqlog[1].err = "Timeout"
    /\ ret = get_fallback_earthquakes

\* C7: two calls of a decorated function with equal arguments made within
\* its ttl execute the body at most once.
C7_BodyAtMostOncePerTTL ==
    \A i, j \in 1..Len(execs) :
        (i < j /\ execs[i].fn = execs[j].fn /\ execs[i].arg = execs[j].arg)
            => execs[j].at - execs[i].at >= TTL(execs[i].fn)

\* C10: get_city_coordinates returns a pair for every text; texts that
\* differ only in letter case and in leading or trailing whitespace get the
\* same pair; a name that is not a key of the table gets London.
C10_CityLookup ==
    coords # <<>> =>
        /\ Len(coords) = 2
        /\ \A casing \in Casings, left \in Paddings, right \in Paddings :
              get_city_coordinates(Typed(city_base, casing, left, right)) = coords
        /\ city_base \notin TableKeys => coords = London
        /\ \A e \in city_coordinates : e.key = city_base => coords = e.value

\* "tOkYo" typed with padding on both sides has been resolved to Tokyo.
C10_Witness ==
    /\ city_name = <<" ", "t", "O", "k", "Y", "o", " ", "\n">>
    /\ coords = <<356762, 1396503>>

\* C8: the distance is a number, is not negative, and is the same in both
\* directions.
C8_DistanceSymmetricNonNegative ==
    dist # Km(-1) =>
        /\ ~dist.nan
        /\ dist.km >= 0
        /\ dist = haversine(lat2, lon2, lat1, lon1)

\* The part of C8 that holds: whatever haversine returns, it returns the same
\* in both directions, and a number it returns is not negative.
C8_SymmetricAndNonNegativeUnlessNaN ==
    dist # Km(-1) =>
        /\ dist = haversine(lat2, lon2, lat1, lon1)
        /\ ~dist.nan => dist.km >= 0

\* C9: the aftershock probability lies in [0, 1] and, the constants being
\* fixed, does not grow with the number of elapsed days.
C9_ProbabilityBoundedDecreasing ==
    prob # -1 =>
        /\ 0 <= prob /\ prob <= 10000
        /\ \A d2 \in Days :
              days <= d2 => calculate_aftershock_probability(omori, d2) <= prob

\* One day after the quake the probability is strictly between 0 and 1 and
\* strictly above the one after ten days.
C9_Witness ==
    /\ days = 1
    /\ 0 < prob /\ prob < 10000
    /\ calculate_aftershock_probability(omori, 10) < prob

\* the run of src/Xreport.py main has ended
X_RunEnded == x_pc = "idle" /\ x_run.ended \in {"return", "rerun", "end", "raised"}

\* C11 as stated: a run shows the tabs and fetches exactly when the session
\* holds a successful location after the sidebar; every other run shows the
\* notice and issues no request.
C11_TabsIffLocation ==
    /\ X_RunEnded =>
        /\ (x_run.tabs /\ x_run.fetched # <<>>) <=> X_success(x_session.location)
        /\ ~X_success(x_session.location) => (x_run.notice /\ x_run.fetched = <<>>)
    /\ fn \in XFetchFns => (x_pc # "idle" /\ X_success(x_session.location))

\* C11 amended: the equivalence holds for every run that the Refresh button
\* does not cut short; a run in which Refresh was clicked stops at st.rerun()
\* and shows neither the tabs nor the notice and issues no request.
C11_TabsIffLocationUnlessRerun ==
    /\ (X_RunEnded /\ x_run.ended # "rerun") =>
        /\ (x_run.tabs /\ x_run.fetched # <<>>) <=> X_success(x_session.location)
        /\ ~X_success(x_session.location) =>
              (x_run.notice /\ ~x_run.tabs /\ x_run.fetched = <<>>)
    /\ (X_RunEnded /\ x_run.ended = "rerun") =>
        (x_run.event = "refresh" /\ ~x_run.tabs /\ ~x_run.notice /\ x_run.fetched = <<>>)
    /\ fn \in XFetchFns => (x_pc # "idle" /\ x_run.tabs /\ X_success(x_session.location))

\* A run started by a successful geocode has rendered all its tabs.
C11_Witness ==
    /\ X_RunEnded
    /\ x_run.geocode = "found"
    /\ x_run.ended = "end"
    /\ Len(x_run.fetched) = 5

\* C16: the stored location, when there is one, is a successful one; no step
\* removes it or replaces it by a failed one; and the step that takes a failed
\* geocode result leaves the session as it was.
C16_LocationKeptSuccessful ==
    /\ [](x_session.location = NoVal \/ X_success(x_session.location))
    /\ [][/\ X_success(x_session.location) => X_success(x_session'.location)
          /\ (x_pc = "geocode" /\ pc = "returned" /\ ~X_success(ret) /\ x_pc' # "geocode")
                => x_session' = x_session]_vars

\* A geocode attempt has failed in a session that holds a location.
C16_Witness ==
    /\ X_RunEnded
    /\ x_run.geocode = "failed"
    /\ X_success(x_session.location)
    /\ x_session.params # 0

\* C13: the alerts request follows a points request answered with status 200;
\* a result other than None needs two requests answered with status 200; no
\* exception leaves the function, any exception or other status gives None,
\* and nothing is shown to the user.
C13_AlertsAfterPoints ==
    fn = "X.fetch_weather_alerts" =>
        /\ pc # "raised"
        /\ ui = "none"
        /\ \A i \in 1..Len(reqlog) :
              reqlog[i].endpoint = "nws-office-alerts" =>
                  /\ i = 2
                  /\ reqlog[1].endpoint = "nws-points"
                  /\ reqlog[1].err = "none"
                  /\ reqlog[1].status = 200
        /\ (pc = "returned" /\ ret # None) =>
              /\ Len(reqlog) = 2
              /\ \A i \in 1..2 : reqlog[i].err = "none" /\ reqlog[i].status = 200
        /\ (pc = "returned" /\ (caught # "none" \/ \E i \in 1..Len(reqlog) : reqlog[i].status # 200))
              => ret = None

\* The points response had status 200 and no forecastOffice key: the lookup
\* error was swallowed and None returned without a message.
C13_Witness ==
    /\ fn = "X.fetch_weather_alerts"
    /\ pc = "returned"
    /\ Len(reqlog) = 1
    /\ reqlog[1].status = 200
    /\ caught = "KeyError"
    /\ ret = None

\* C19: fetch_earthquakes returns either one row per feature of the response,
\* in the order of the response, or the empty table; a response with a
\* malformed feature gives the empty table.
C19_AllOrNothing ==
    (fn = "M.fetch_earthquakes" /\ pc = "returned") =>
        /\ ret.kind = "DataFrame"
        /\ \/ ret.rows = <<>>
           \/ ret.rows = [i \in 1..Len(resp.body.items) |-> i]
        /\ ~AllOk(resp.body.items) => ret.rows = <<>>

\* The second of two features was malformed and the table returned is empty.
C19_Witness ==
    /\ fn = "M.fetch_earthquakes"
    /\ pc = "returned"
    /\ resp.status = 200
    /\ resp.body.items = <<TRUE, FALSE>>
    /\ ret = DataFrame(<<>>)

\* the number of earthquakes whose distance lies in the bin a label names
PieBinCount(ds, k) ==
    Cardinality({i \in 1..Len(ds) :
        CASE k = 1 -> 0 <= ds[i] /\ ds[i] <= 10
          [] k = 2 -> 10 < ds[i] /\ ds[i] <= 100
          [] k = 3 -> 100 < ds[i] /\ ds[i] <= 500
          [] OTHER -> 500 < ds[i] /\ ds[i] <= 1000})

\* C20: under each label the pie of the Executive Summary plots the number
\* of earthquakes of that label's bin, which is also the number that
\* generate_pdf_html plots under the label.
C20_PieValuesAreBinCounts ==
    pie_main # <<>> =>
        \A k \in PieLabels :
            /\ pie_main[k] = PieBinCount(pie_distances, k)
            /\ pie_main[k] = pie_pdf[k]

\* the default location of src/MegaReport/Xreport.py
M_Default == M_place(SanFrancisco.lat, SanFrancisco.lon, "San Francisco")

\* C12: after a geocoder timeout geocode_location returns the default
\* coordinates, and the earthquake, weather-grid and alerts fetches of that
\* run are called with them.
C12_TimeoutUsesDefault ==
    /\ (fn = "M.geocode_location" /\ pc = "returned" /\ caught = "GeocoderTimedOut")
          => ret = Tuple(SanFrancisco.lat, SanFrancisco.lon)
    /\ m_run.timed_out =>
          /\ m_run.lat = SanFrancisco.lat /\ m_run.lon = SanFrancisco.lon
          /\ \A i \in 1..Len(m_run.fetched) :
                m_run.fetched[i].fn # "M.fetch_forecast" =>
                    /\ m_run.fetched[i].arg.lat = SanFrancisco.lat
                    /\ m_run.fetched[i].arg.lon = SanFrancisco.lon
          /\ fn \in {"M.fetch_earthquakes", "M.get_weather_grid", "M.fetch_alerts"} =>
                (arg.lat = SanFrancisco.lat /\ arg.lon = SanFrancisco.lon)

\* A run whose geocoding timed out has made its four calls, while the number
\* inputs of the sidebar hold another place.
C12_Witness ==
    /\ m_run.timed_out
    /\ m_run.ended = "end"
    /\ Len(m_run.fetched) = 4
    /\ m_widgets.at = Elsewhere

\* C14: in a run in which get_weather_grid failed, fetch_forecast sends no
\* request and the Weather tab shows the notice; the forecast of a run has
\* at most 14 rows, the first periods of the response in their order.
C14_NoForecastWithoutGrid ==
    /\ m_run.grid = "failed" =>
          /\ \A i \in 1..Len(m_run.fetched) :
                \A j \in 1..Len(m_run.fetched[i].requests) :
                    m_run.fetched[i].requests[j] # "nws-forecast"
          /\ fn = "M.fetch_forecast" => (reqlog = <<>> /\ pc = "returned" /\ ret = DataFrame(<<>>))
          /\ m_run.ended = "end" => m_run.weather_notice
    /\ Len(m_run.forecast) <= 14
    /\ m_run.forecast = [i \in 1..Len(m_run.forecast) |-> i]
    /\ (fn = "M.fetch_forecast" /\ pc = "returned" /\ ret.rows # <<>>) =>
          ret.rows = FirstN(Rows(resp.body.items), 14)

\* A run in which get_weather_grid failed has rendered its tabs.
C14_Witness ==
    /\ m_run.grid = "failed"
    /\ m_run.ended = "end"
    /\ Len(m_run.fetched) = 4
    /\ m_run.fetched[3].fn = "M.fetch_forecast"
    /\ m_run.fetched[3].requests = <<>>
    /\ m_run.weather_notice

\* C17: in 'City Name' mode a run that the Geocode button did not start is
\* located at the San Francisco default, and so is the PDF it generates.
C17_CityOnlyInClickRun ==
    (m_widgets.input_method = "City Name" /\ m_run.location_name # "") =>
        /\ m_run.event # "geocode" =>
              /\ M_place(m_run.lat, m_run.lon, m_run.location_name) = M_Default
              /\ m_session = M_Default
        /\ m_run.pdf \notin {"none", "failed"} =>
              /\ m_run.pdf = "San Francisco"
              /\ m_session = M_Default

\* Paris was geocoded earlier in the session and the PDF reports San Francisco.
C17_Witness ==
    /\ m_widgets.input_method = "City Name"
    /\ m_found = "Paris"
    /\ m_run.event = "pdf"
    /\ m_run.pdf = "San Francisco"

\* C18: after a Geocode click 'City not found.' is shown and the default is
\* used exactly when geocode_location returned (None, None).
C18_NotFoundIffNone ==
    m_run.geocode # NoVal =>
        /\ (m_run.message = "City not found.") <=> (m_run.geocode = NoneTuple)
        /\ m_run.geocode # NoneTuple =>
              (m_run.lat = m_run.geocode.lat /\ m_run.lon = m_run.geocode.lon)

\* C15: get_earthquake_data never raises and never returns an empty list; an
\* exception, a status other than 200 and a response without events all give
\* the fallback list, which has 12 records with the ids fallback_1 ..
\* fallback_12 and no tsunami flag; the dashboard never shows its 'No
\* earthquake data found' notice.
C15_NeverEmpty ==
    /\ fn = "Q.get_earthquake_data" =>
          /\ pc # "raised"
          /\ pc = "returned" =>
                /\ ret.rows # <<>>
                /\ (resp.err # "none" \/ resp.status # 200 \/ resp.body.items = <<>>)
                      => ret = get_fallback_earthquakes
                /\ ret.kind = "fallback" =>
                      /\ Len(ret.rows) = 12
                      /\ \A i \in 1..12 :
                            /\ fallback_earthquake(ret.rows[i]).usgs_id = i
                            /\ fallback_earthquake(ret.rows[i]).tsunami = 0
    /\ q_run.quakes # "No earthquake data found in the selected area"
    /\ q_session.data_loaded => q_session.earthquake_data.rows # <<>>

\* A load whose request was answered with status 200 and no event has put the
\* fallback list on the dashboard.
C15_Witness ==
    /\ q_run.event = "load"
    /\ q_run.shown = "dashboard"
    /\ q_run.quakes = "table"
    /\ q_session.earthquake_data = get_fallback_earthquakes
    /\ q_run.answer.err = "none" /\ q_run.answer.status = 200
    /\ q_run.answer.body.shape = "geojson" /\ q_run.answer.body.items = <<>>

\* the places of the parts with a given tag in the document returned
PdfPlaces(tag) == {i \in DOMAIN pdf_out.html : pdf_out.html[i].tag = tag}

\* the sections of the document, in the order the claim gives
PdfSections ==
    <<"Cover Page", "Executive Summary", "Earthquakes", "Weather Forecast", "Alerts">>

\* C21: every document generate_pdf_html returns has the sections cover,
\* Executive Summary, Earthquakes, Weather Forecast, Alerts once each and in
\* that order, whichever tables are empty; the counts printed are the numbers
\* of rows of the earthquake and alert tables; the earthquake table lists the
\* first rows, at most 10; a map image is included iff earthquakes or alerts
\* are not empty; 'No active alerts.' appears iff the alert table is empty.
C21_PdfDocument ==
    pdf_out.outcome = "returned" =>
        /\ \A k \in DOMAIN PdfSections : Cardinality(PdfPlaces(PdfSections[k])) = 1
        /\ \A k \in 1..(Len(PdfSections) - 1) :
              \A i \in PdfPlaces(PdfSections[k]), j \in PdfPlaces(PdfSections[k + 1]) : i < j
        /\ \A i \in PdfPlaces("Total Earthquakes") :
              pdf_out.html[i].n = Len(pdf_in.quakes_df)
        /\ \A i \in PdfPlaces("Active Alerts") :
              pdf_out.html[i].n = Len(pdf_in.alerts_df)
        /\ Cardinality(PdfPlaces("Total Earthquakes")) = 1
        /\ Cardinality(PdfPlaces("Active Alerts")) = 1
        /\ \A i \in PdfPlaces("quakes table") :
              /\ Len(pdf_out.html[i].rows) <= 10
              /\ \A r \in DOMAIN pdf_out.html[i].rows :
                    pdf_out.html[i].rows[r] = pdf_in.quakes_df[r]
        /\ (PdfPlaces("map_img") # {})
              <=> (Len(pdf_in.quakes_df) > 0 \/ Len(pdf_in.alerts_df) > 0)
        /\ (PdfPlaces("No active alerts.") # {}) <=> (Len(pdf_in.alerts_df) = 0)

\* A document returned for more than 10 earthquakes and no alert: the table
\* has 10 rows, the map is included and 'No active alerts.' is printed.
C21_Witness ==
    /\ pdf_out.outcome = "returned"
    /\ Len(pdf_in.quakes_df) > 10
    /\ Len(pdf_in.alerts_df) = 0
    /\ \E i \in PdfPlaces("quakes table") : Len(pdf_out.html[i].rows) = 10
    /\ PdfPlaces("map_img") # {}
    /\ PdfPlaces("No active alerts.") # {}

\* the storm levels, from the lowest
KpRank(level) ==
    CASE level = "Quiet Geomagnetic Conditions" -> 1
      [] level = "Unsettled Geomagnetic Conditions" -> 2
      [] level = "Geomagnetic Storm Active" -> 3
      [] OTHER -> 0

\* the texts of the model that are numbers
KpNumbers == {v \in KpTexts : float(v).ok}

\* C22: the storm level shown for a Kp index is exactly one of three levels,
\* 'Geomagnetic Storm Active' iff Kp >= 5, 'Unsettled' iff 4 <= Kp < 5,
\* 'Quiet' iff Kp < 4, and so never falls as Kp grows; no level is shown for
\* the index 'N/A', and 'N/A' is what fetch_space_weather reports when the
\* feed answers with a status other than 200 or with an empty list.
C22_KpBuckets ==
    /\ kp_value \in KpNumbers =>
          LET kp == float(kp_value).val
          IN  /\ KpRank(kp_level) \in 1..3
              /\ (kp_level = "Geomagnetic Storm Active") <=> (kp >= 500)
              /\ (kp_level = "Unsettled Geomagnetic Conditions") <=> (kp >= 400 /\ kp < 500)
              /\ (kp_level = "Quiet Geomagnetic Conditions") <=> (kp < 400)
    /\ \A v1 \in KpNumbers, v2 \in KpNumbers :
          float(v1).val <= float(v2).val
              => KpRank(storm_level(v1)) <= KpRank(storm_level(v2))
    /\ kp_value = NA => kp_level = "none"
    /\ (/\ fn = "X.fetch_space_weather"
        /\ pc = "returned"
        /\ resp.err = "none"
        /\ \/ resp.status # 200
           \/ resp.body.shape = "rows" /\ resp.body.items = <<>>)
          => ret = KpReading("N/A")
    /\ (/\ kp_answer.err = "none"
        /\ kp_answer.status # 0
        /\ \/ kp_answer.status # 200
           \/ kp_answer.body.shape = "rows" /\ kp_answer.body.items = <<>>)
          => kp_value = NA /\ kp_level = "none"

\* The feed answered with rows, the last one holds the Kp value 5.00 and the
\* tab shows the storm level.
C22_Witness ==
    /\ kp_answer.status = 200
    /\ kp_answer.body.shape = "rows"
    /\ kp_answer.body.items # <<>>
    /\ kp_value = <<"5", ".", "0", "0">>
    /\ kp_level = "Geomagnetic Storm Active"

\* C23: in src/quakes.py the welcome page is shown iff 'Load Comprehensive
\* Data' has never been clicked; 'data_loaded' is never unset once set; when
\* it is set, city_name, lat, lon, radius_km, earthquake_data, weather_data
\* and severe_alerts are all present and were written by the same click, with
\* (lat, lon) = get_city_coordinates(city_name); a run without that click
\* leaves every session key unchanged.
C23_SessionInvariants ==
    /\ [](/\ q_run.ended = "end" => ((q_run.shown = "welcome") <=> (q_loads = 0))
          /\ "data_loaded" \in q_session.keys =>
                /\ q_session.data_loaded
                /\ q_session.keys = Q_Keys
                /\ \A k \in Q_Keys : q_session.stamp[k] = q_session.stamp["data_loaded"]
                /\ q_session.stamp["data_loaded"] >= 1
                /\ <<q_session.lat, q_session.lon>> = get_city_coordinates(q_session.city_name)
                /\ q_session.earthquake_data.kind # "unset"
                /\ q_session.weather_data.kind # "unset"
                /\ q_session.severe_alerts.kind # "unset")
    /\ [][/\ "data_loaded" \in q_session.keys => "data_loaded" \in q_session'.keys
          /\ q_run'.event # "load" => q_session' = q_session]_vars

\* After a second Load click with another city typed, a run that only changes
\* the page shows that page from the session the second click wrote.
C23_Witness ==
    /\ q_loads = 2
    /\ q_run.event = "page"
    /\ q_run.ended = "end"
    /\ q_run.shown = "Data Analytics"
    /\ q_session.stamp["data_loaded"] = 2
    /\ q_session.city_name = <<" ", "T", "O", "K", "Y", "O">>
    /\ q_widgets.city_name # q_session.city_name

====
